---------------------------- MODULE Spec2Model ----------------------------
(***************************************************************************)
(* Model of the buffer-preprocessor compression core:                      *)
(*   - Bitstream          (src/buffer_processor/bitstream.py)              *)
(*   - common_prefix      (src/buffer_processor/utilities.py)              *)
(*   - LZSSCodec, RLECodec and their statistics                            *)
(*                        (src/buffer_processor/compress.py)               *)
(*   - ProcessController  (src/buffer_processor/process_controller.py)     *)
(*   - CompressionRunner.find_best_compression                             *)
(*                        (src/buffer_processor/compress.py)               *)
(*                                                                         *)
(* Byte strings are sequences of integers 0..255.  Positions inside the    *)
(* operators are 0-based as in the source; a sequence is indexed with      *)
(* position + 1.  An LZSS or RLE token is a tuple: <<v>> is a bare value   *)
(* (a Python int), <<a, b>> is a Python 2-tuple.                           *)
(***************************************************************************)
EXTENDS Integers, Sequences, FiniteSets, TLC

VARIABLES
    bits,   \* the Bitstream scenario: writer, reader, log of writes, values read
    lz,     \* the LZSS scenario: input, codec, tokens, statistics, binary, decoded
    rl,     \* the RLE scenario: input, codec, tokens, statistics, binary, decoded
    sr,     \* the search scenario: a CompressionRunner, its controller and workers
    pool    \* the pool scenario: a ProcessController, its workers, its caller

vars == <<bits, lz, rl, sr, pool>>

Min(a, b) == IF a < b THEN a ELSE b

Pow2(n) == 2 ^ n

\* A Python for loop over a sequence, "for entry in seq: acc = Step(acc, entry)",
\* started with acc = init: the value of acc when the loop is over.  The locals
\* the loop body assigns are the fields of acc.
ForEach(Step(_, _), seq, init) ==
    LET RECURSIVE loop(_)
        loop(st) ==
            IF st.i > Len(seq) THEN st
            ELSE loop([acc |-> Step(st.acc, seq[st.i]), i |-> st.i + 1])
    IN loop([acc |-> init, i |-> 1]).acc

\* range(count) as a sequence
RangeSeq(count) == [i \in 1..count |-> i - 1]

(***************************************************************************)
(* bitstream.py                                                            *)
(***************************************************************************)

\* bit_width_per_value(value)
bit_width_per_value(value) ==
    LET RECURSIVE loop(_)
        loop(width) == IF Pow2(width) <= value THEN loop(width + 1) ELSE width
    IN IF value > 0 THEN loop(0) ELSE 1

\* Bitstream.__init__
Bitstream_new ==
    [buffer |-> <<>>, read_position |-> 0, write_position |-> 0, current_byte |-> 0]

\* (value >> bit) & 1 on Python's unbounded two's-complement integers, for a
\* value of magnitude below 2^31: from bit 31 upwards the shift leaves 0 for a
\* value >= 0 and -1 for a negative one
BitOf(value, bit) ==
    IF bit > 30 THEN (IF value < 0 THEN 1 ELSE 0)
    ELSE (value \div Pow2(bit)) % 2

\* an append step that fills each byte from its least significant bit upwards
append_step_lsb_first(st, value) ==
    LET current_byte == st.current_byte + BitOf(value, st.bit) * Pow2(st.write_position)
        write_position == st.write_position + 1
    IN IF write_position = 8
       THEN [buffer |-> Append(st.buffer, current_byte), current_byte |-> 0,
             write_position |-> 0, bit |-> st.bit - 1]
       ELSE [buffer |-> st.buffer, current_byte |-> current_byte,
             write_position |-> write_position, bit |-> st.bit - 1]

\* an append step that does not clear current_byte after storing it
append_step_keeps_byte(st, value) ==
    LET current_byte == st.current_byte * 2 + BitOf(value, st.bit)
        write_position == st.write_position + 1
    IN IF write_position = 8
       THEN [buffer |-> Append(st.buffer, current_byte), current_byte |-> current_byte,
             write_position |-> 0, bit |-> st.bit - 1]
       ELSE [buffer |-> st.buffer, current_byte |-> current_byte,
             write_position |-> write_position, bit |-> st.bit - 1]

\* one iteration of the loop of Bitstream.append; st holds the locals buffer,
\* current_byte, write_position and bit
append_step(st, value) ==
    LET current_byte == st.current_byte * 2 + BitOf(value, st.bit)
        write_position == st.write_position + 1
    IN IF write_position = 8
       THEN [buffer |-> Append(st.buffer, current_byte), current_byte |-> 0,
             write_position |-> 0, bit |-> st.bit - 1]
       ELSE [buffer |-> st.buffer, current_byte |-> current_byte,
             write_position |-> write_position, bit |-> st.bit - 1]

\* Bitstream.append(count, value): bit runs from count - 1 down to 0
Bitstream_append(bs, count, value) ==
    LET RECURSIVE append_loop(_)
        append_loop(st) ==
            IF st.bit < 0 THEN st ELSE append_loop(append_step(st, value))
        st == append_loop([buffer |-> bs.buffer, current_byte |-> bs.current_byte,
                           write_position |-> bs.write_position, bit |-> count - 1])
    IN [bs EXCEPT !.buffer = st.buffer,
                  !.current_byte = st.current_byte,
                  !.write_position = st.write_position]

\* one iteration of the loop of Bitstream.read; st holds the locals value,
\* position and current_byte, and left, the iterations of range(count) still to
\* run (break sets it to 0)
read_step(st, buffer) ==
    IF st.position % 8 = 0 /\ st.position \div 8 >= Len(buffer)
    THEN [st EXCEPT !.left = 0]
    ELSE LET current_byte == IF st.position % 8 = 0
                             THEN buffer[st.position \div 8 + 1]
                             ELSE st.current_byte
         IN [value |-> st.value * 2 + BitOf(current_byte, 7 - (st.position % 8)),
             position |-> st.position + 1,
             current_byte |-> current_byte,
             left |-> st.left - 1]

\* Bitstream.read(count): the stream after the read and the value returned
Bitstream_read(bs, count) ==
    LET RECURSIVE read_loop(_)
        read_loop(st) ==
            IF st.left <= 0 THEN st ELSE read_loop(read_step(st, bs.buffer))
        st == read_loop([value |-> 0, position |-> bs.read_position,
                         current_byte |-> bs.current_byte, left |-> count])
    IN [bs |-> [bs EXCEPT !.read_position = st.position,
                          !.current_byte = st.current_byte],
        value |-> st.value]

\* array('B', buffer): "OverflowError" when an element is not an unsigned byte
array_B_error(buffer) ==
    IF \E i \in DOMAIN buffer : buffer[i] < 0 \/ buffer[i] > 255
    THEN "OverflowError" ELSE "none"

\* variant of to_array with a fault: the partial byte is appended unshifted
Bitstream_to_array_unshifted(bs) ==
    LET buffer == IF bs.write_position > 0
                  THEN Append(bs.buffer, bs.current_byte)
                  ELSE bs.buffer
        error == array_B_error(buffer)
    IN [bs |-> [bs EXCEPT !.buffer = buffer],
        array |-> IF error = "none" THEN buffer ELSE <<>>,
        error |-> error]

\* Bitstream.to_array(): the stream after the call (the partial byte is
\* appended to the buffer), the array returned and the error raised:
\* array('B', ...) raises OverflowError, after the append, when an element of
\* the buffer is above 255, and then nothing is returned
Bitstream_to_array(bs) ==
    LET buffer == IF bs.write_position > 0
                  THEN Append(bs.buffer, bs.current_byte * Pow2(8 - bs.write_position))
                  ELSE bs.buffer
        error == array_B_error(buffer)
    IN [bs |-> [bs EXCEPT !.buffer = buffer],
        array |-> IF error = "none" THEN buffer ELSE <<>>,
        error |-> error]

\* Bitstream.from_array(data)
Bitstream_from_array(bs, data) ==
    [buffer |-> data, read_position |-> 0, write_position |-> 0, current_byte |-> 0]

(***************************************************************************)
(* utilities.py                                                            *)
(***************************************************************************)

\* a common prefix that ends where lhs ends instead of repeating lhs
common_prefix_no_repeat(lhs, rhs, max_length) ==
    LET lhs_len == Len(lhs)
        count == Min(Len(rhs), max_length)
        RECURSIVE loop(_)
        loop(i) ==
            IF i >= count THEN count
            ELSE IF i >= lhs_len THEN i
            ELSE IF lhs[i + 1] # rhs[i + 1] THEN i
            ELSE loop(i + 1)
    IN loop(0)

\* common_prefix(lhs, rhs, max_length)
common_prefix(lhs, rhs, max_length) ==
    LET lhs_len == Len(lhs)
        count == Min(Len(rhs), max_length)
        RECURSIVE loop(_)
        loop(i) ==
            IF i >= count THEN count
            ELSE IF lhs[(i % lhs_len) + 1] # rhs[i + 1] THEN i
            ELSE loop(i + 1)
    IN loop(0)

(***************************************************************************)
(* compress.py: LZSS                                                       *)
(***************************************************************************)

\* sanitize_buffer_address(buffer, address_bits)
sanitize_buffer_address(buffer, address_bits) ==
    Min(bit_width_per_value(Len(buffer)), address_bits)

\* LZSSCodec.__init__(max_window_bits, max_length_bits, size_bit_count)
LZSSCodec(max_window_bits, max_length_bits, size_bit_count) ==
    LET reference_size == 1 + max_window_bits + max_length_bits IN
    [max_window_bits |-> max_window_bits,
     max_length_bits |-> max_length_bits,
     size_bit_count |-> size_bit_count,
     minimum_backreference |->
         IF reference_size < 9 THEN 1
         ELSE IF reference_size < 17 THEN 2
         ELSE IF reference_size < 25 THEN 3
         ELSE 4]

\* LZSSEncodingStatistics.__init__(codec)
LZSSEncodingStatistics(codec) ==
    [minimum_backreference |-> codec.minimum_backreference,
     max_window_bits |-> codec.max_window_bits,
     max_length_bits |-> codec.max_length_bits,
     overhead_bits |-> codec.size_bit_count + 4 + 4 + 2,
     literals |-> 0,
     references |-> 0,
     max_window |-> 0,
     max_length |-> 0]

\* LZSSEncodingStatistics.add_literal()
LZSSStatistics_add_literal(statistics) ==
    [statistics EXCEPT !.literals = @ + 1]

\* LZSSEncodingStatistics.add(offset, length)
LZSSStatistics_add(statistics, offset, length) ==
    [statistics EXCEPT !.references = @ + 1,
                       !.max_window = IF offset > @ THEN offset ELSE @,
                       !.max_length = IF length > @ THEN length ELSE @]

\* variant of size() with a fault: the bit count is rounded down to bytes
LZSSStatistics_size_floor(statistics) ==
    LET size == statistics.overhead_bits
                + statistics.literals * 9
                + statistics.references
                  * (1 + statistics.max_window_bits + statistics.max_length_bits)
    IN size \div 8

\* LZSSEncodingStatistics.size()
LZSSStatistics_size(statistics) ==
    LET size == statistics.overhead_bits
                + statistics.literals * 9
                + statistics.references
                  * (1 + statistics.max_window_bits + statistics.max_length_bits)
    IN (size + 7) \div 8

\* variant of history with a fault: one position more than the offset field holds
LZSSHistory_too_long(codec) == Pow2(codec.max_window_bits) + 2

\* history = (2 ** max_window_bits) + 1
LZSSHistory(codec) == Pow2(codec.max_window_bits) + 1

\* variant of max_length with a fault: one more than the length field holds
LZSSMaxLength_one_more(codec) == codec.minimum_backreference + Pow2(codec.max_length_bits)

\* max_length = minimum_backreference + (2 ** max_length_bits) - 1
LZSSMaxLength(codec) == codec.minimum_backreference + Pow2(codec.max_length_bits) - 1

\* data[position:position + minimum_backreference]
LZSSProbe(codec, data, position) ==
    SubSeq(data, position + 1, Min(position + codec.minimum_backreference, Len(data)))

\* the body of "for pos in candidate_cache_entry" in LZSSCodec.compress; acc
\* holds the locals best_candidate, best_length and new_candidates
lzss_scan_step(data, position, oldest, max_length, acc, pos) ==
    IF pos > oldest
    THEN LET kept == [acc EXCEPT !.new_candidates = Append(@, pos)] IN
         IF acc.best_length < max_length
         THEN LET prefix == common_prefix(SubSeq(data, pos + 1, position),
                                          SubSeq(data, position + 1, Len(data)),
                                          max_length)
              IN IF prefix > acc.best_length
                 THEN [kept EXCEPT !.best_length = prefix, !.best_candidate = pos]
                 ELSE kept
         ELSE kept
    ELSE acc

\* the body of the while loop of LZSSCodec.compress; st holds the locals
\* position, candidate_cache, results and statistics
lzss_compress_step(codec, data, st) ==
    LET position == st.position
        possible_slice == LZSSProbe(codec, data, position)
    IN IF possible_slice \notin DOMAIN st.candidate_cache
       THEN [position |-> position + 1,
             candidate_cache |-> (possible_slice :> <<position>>) @@ st.candidate_cache,
             results |-> Append(st.results, <<data[position + 1]>>),
             statistics |-> LZSSStatistics_add_literal(st.statistics)]
       ELSE LET oldest == position - LZSSHistory(codec)
                max_length == LZSSMaxLength(codec)
                scan == ForEach(LAMBDA acc, pos :
                                    lzss_scan_step(data, position, oldest, max_length,
                                                   acc, pos),
                                st.candidate_cache[possible_slice],
                                [best_candidate |-> position, best_length |-> 0,
                                 new_candidates |-> <<>>])
                cache == (possible_slice :> Append(scan.new_candidates, position))
                         @@ st.candidate_cache
            IN IF scan.best_length >= codec.minimum_backreference
               THEN [position |-> position + scan.best_length,
                     candidate_cache |-> cache,
                     results |-> Append(st.results,
                                        <<scan.best_candidate - position,
                                          scan.best_length>>),
                     statistics |-> LZSSStatistics_add(st.statistics,
                                        position - scan.best_candidate,
                                        scan.best_length)]
               ELSE [position |-> position + 1,
                     candidate_cache |-> cache,
                     results |-> Append(st.results, <<data[position + 1]>>),
                     statistics |-> LZSSStatistics_add_literal(st.statistics)]

\* LZSSCodec.compress(data): [results, statistics]
LZSSCodec_compress(codec, data) ==
    LET RECURSIVE loop(_)
        loop(st) ==
            IF st.position >= Len(data) THEN st
            ELSE loop(lzss_compress_step(codec, data, st))
        st == loop([position |-> 0, candidate_cache |-> <<>>, results |-> <<>>,
                    statistics |-> LZSSEncodingStatistics(codec)])
    IN [results |-> st.results, statistics |-> st.statistics]

\* bytebuffer.append(bytebuffer[offset]) in LZSSCodec.decompress (Python
\* indexing: a negative offset counts from the end, an index outside the buffer
\* raises IndexError, which ends the call)
lzss_copy_step(out, offset) ==
    LET n == Len(out.bytes)
        index == IF offset < 0 THEN n + offset ELSE offset
    IN IF out.error # "none" THEN out
       ELSE IF index < 0 \/ index >= n
       THEN [out EXCEPT !.error = "IndexError"]
       ELSE [out EXCEPT !.bytes = Append(@, @[index + 1])]

\* a decompress step that copies a back-reference as one block, a slice of the
\* bytes already written
lzss_decompress_step_block_copy(out, entry) ==
    IF out.error # "none" THEN out
    ELSE IF Len(entry) < 2
    THEN [out EXCEPT !.bytes = Append(@, entry[1])]
    ELSE LET n == Len(out.bytes)
             first == n + entry[1] + 1
             copied == Min(entry[2], n - first + 1)
         IN IF first < 1 \/ first > n
            THEN [out EXCEPT !.error = "IndexError"]
            ELSE [out EXCEPT !.bytes = @ \o [i \in 1..copied |-> @[first + i - 1]]]

\* the body of "for entry in compressed_buffer" in LZSSCodec.decompress
lzss_decompress_step(out, entry) ==
    IF out.error # "none" THEN out
    ELSE IF Len(entry) < 2
    THEN [out EXCEPT !.bytes = Append(@, entry[1])]
    ELSE ForEach(LAMBDA o, i : lzss_copy_step(o, entry[1]), RangeSeq(entry[2]), out)

\* LZSSCodec.decompress(compressed_buffer): [error, bytes]
LZSSCodec_decompress(compressed_buffer) ==
    ForEach(lzss_decompress_step, compressed_buffer,
            [error |-> "none", bytes |-> <<>>])

\* the header of LZSSCodec.to_binary
LZSSHeader(codec, token_count) ==
    Bitstream_append(
        Bitstream_append(
            Bitstream_append(
                Bitstream_append(Bitstream_new, 4, codec.max_window_bits - 3),
                4, codec.max_length_bits - 1),
            2, codec.minimum_backreference - 1),
        codec.size_bit_count, token_count)

\* the body of "for entry in compressed_data" in LZSSCodec.to_binary
lzss_write_token(codec, bitstream, entry) ==
    IF Len(entry) < 2
    THEN Bitstream_append(Bitstream_append(bitstream, 1, 0), 8, entry[1])
    ELSE Bitstream_append(
             Bitstream_append(
                 Bitstream_append(bitstream, 1, 1),
                 codec.max_window_bits, (-entry[1]) - 1),
             codec.max_length_bits, entry[2] - codec.minimum_backreference)

\* LZSSCodec.to_binary(compressed_data): the byte array
LZSSCodec_to_binary(codec, compressed_data) ==
    Bitstream_to_array(
        ForEach(LAMBDA bitstream, entry : lzss_write_token(codec, bitstream, entry),
                compressed_data,
                LZSSHeader(codec, Len(compressed_data)))).array

\* the body of "for _ in range(count)" in LZSSCodec.from_binary; st holds the
\* bitstream and compressed_data
lzss_read_token(max_window_bits, length, minimum_backreference, st) ==
    LET flag == Bitstream_read(st.bitstream, 1) IN
    IF flag.value # 0
    THEN LET off == Bitstream_read(flag.bs, max_window_bits)
             cnt == Bitstream_read(off.bs, length)
         IN [bitstream |-> cnt.bs,
             compressed_data |->
                 Append(st.compressed_data,
                        <<(-off.value) - 1, cnt.value + minimum_backreference>>)]
    ELSE LET lit == Bitstream_read(flag.bs, 8)
         IN [bitstream |-> lit.bs,
             compressed_data |-> Append(st.compressed_data, <<lit.value>>)]

\* the tokens LZSSCodec.from_binary reads from the array
LZSSCodec_read_binary(codec, data) ==
    LET r1 == Bitstream_read(Bitstream_from_array(Bitstream_new, data), 4)
        r2 == Bitstream_read(r1.bs, 4)
        r3 == Bitstream_read(r2.bs, 2)
        r4 == Bitstream_read(r3.bs, codec.size_bit_count)
        max_window_bits == r1.value + 3
        length == r2.value + 1
        minimum_backreference == r3.value + 1
        count == r4.value
    IN [max_window_bits |-> max_window_bits,
        length |-> length,
        minimum_backreference |-> minimum_backreference,
        count |-> count,
        compressed_data |->
            ForEach(LAMBDA st, k : lzss_read_token(max_window_bits, length,
                                                   minimum_backreference, st),
                    RangeSeq(count),
                    [bitstream |-> r4.bs, compressed_data |-> <<>>]).compressed_data]

\* LZSSCodec.from_binary(data): [error, bytes]
LZSSCodec_from_binary(codec, data) ==
    LZSSCodec_decompress(LZSSCodec_read_binary(codec, data).compressed_data)

(***************************************************************************)
(* compress.py: RLE                                                        *)
(***************************************************************************)

\* sentinel: Optional[int] = None  (no sentinel chosen)
None == -1

\* the two 32-bit halves of _rle_sentinel = 0x08192A3B4C5D6E7F:
\* 0x08192A3B = 135866939 (below 2^28) and 0x4C5D6E7F = 1281191551 (below 2^31)
rle_sentinel_high == 135866939
rle_sentinel_low == 1281191551

\* rle_sentinel_for_bit_width(bit_width): _rle_sentinel & ((1 << bit_width) - 1).
\* Up to 32 bits the mask keeps bits of the low half only and the value is an
\* integer.  Above 32 bits the value is high * 2^32 + low with high >= 1 (bit
\* 32 of _rle_sentinel is set), which is beyond the integers that can be
\* evaluated here: it is given as <<high, low>>, its two 32-bit halves.
\* wide_sentinel tells which of the two forms the sentinel field of analysed
\* statistics holds.
rle_sentinel_for_bit_width(bit_width) ==
    IF bit_width >= 31 /\ bit_width <= 32 THEN rle_sentinel_low
    ELSE IF bit_width < 31 THEN rle_sentinel_low % Pow2(bit_width)
    ELSE <<IF bit_width - 32 >= 28 THEN rle_sentinel_high
           ELSE rle_sentinel_high % Pow2(bit_width - 32),
           rle_sentinel_low>>

\* the sentinel of these statistics is the fixed one of more than 32 bits
wide_sentinel(statistics) ==
    /\ statistics.use_sentinel
    /\ ~statistics.dynamic_sentinel
    /\ statistics.bit_width > 32

\* entry == sentinel for a bare entry, an integer below 2^31: its high half
\* is 0 and its low half is the entry itself
entry_is_sentinel(entry, sentinel, wide) ==
    IF wide THEN sentinel[1] = 0 /\ sentinel[2] = entry
    ELSE entry = sentinel

\* bitstream.append(self.bit_width, sentinel): the bits of a sentinel of more
\* than 32 bits are those of its high half, then the 32 of its low half
append_sentinel(bitstream, bit_width, sentinel, wide) ==
    IF wide
    THEN Bitstream_append(Bitstream_append(bitstream, bit_width - 32, sentinel[1]),
                          32, sentinel[2])
    ELSE Bitstream_append(bitstream, bit_width, sentinel)

\* RLECodec.__init__(bit_width, dynamic_sentinel, size_bits)
RLECodec(bit_width, dynamic_sentinel, size_bits) ==
    [bit_width |-> bit_width,
     size_bits |-> size_bits,
     dynamic_sentinel |-> dynamic_sentinel,
     use_sentinel |-> (bit_width % 4 = 0),
     minimum_loop |-> IF bit_width % 4 = 0 THEN 3 ELSE 2]

\* RLEncodingStatistics.__init__(codec)
RLEncodingStatistics(codec) ==
    [bit_width |-> codec.bit_width,
     use_sentinel |-> (codec.bit_width % 4 = 0),
     dynamic_sentinel |-> codec.dynamic_sentinel,
     header_bits |-> IF codec.bit_width % 4 = 0
                     THEN 7 + 1 + codec.size_bits + codec.bit_width
                     ELSE 0,
     literals |-> 0,
     references |-> 0,
     max_length |-> 0,
     sentinel |-> None,
     sentinel_count |-> 0]

\* RLEncodingStatistics.add_literal()
RLEStatistics_add_literal(statistics) ==
    [statistics EXCEPT !.literals = @ + 1]

\* RLEncodingStatistics.add(length)
RLEStatistics_add(statistics, length) ==
    [statistics EXCEPT !.references = @ + 1,
                       !.max_length = IF length > @ THEN length ELSE @]

\* value_map[entry] = value_map.get(entry, 0) + 1, the map kept as the list of
\* its <<key, count>> items in insertion order
value_map_add(value_map, entry) ==
    IF \E k \in DOMAIN value_map : value_map[k][1] = entry
    THEN [k \in DOMAIN value_map |->
             IF value_map[k][1] = entry THEN <<entry, value_map[k][2] + 1>>
             ELSE value_map[k]]
    ELSE Append(value_map, <<entry, 1>>)

\* variant of the frequency map with a fault: the values of runs are counted too
RLE_value_map_with_runs(compression_result) ==
    ForEach(LAMBDA value_map, entry : value_map_add(value_map, entry[1]),
            compression_result, <<>>)

\* the first loop of analyze_sentinel: the frequency map of the bare entries of
\* compression_result, tuples skipped
RLE_value_map(compression_result) ==
    ForEach(LAMBDA value_map, entry :
                IF Len(entry) = 2 THEN value_map
                ELSE value_map_add(value_map, entry[1]),
            compression_result, <<>>)

\* for i in range(1 << bit_width): if i not in value_map: ... break
\* the first i absent from the map, or None when the loop runs to its end;
\* from bit_width 31 on the range holds every integer a map entry can be
first_absent(value_map, bit_width) ==
    LET RECURSIVE loop(_)
        loop(i) ==
            IF bit_width < 31 /\ i >= Pow2(bit_width) THEN None
            ELSE IF \A k \in DOMAIN value_map : value_map[k][1] # i THEN i
            ELSE loop(i + 1)
    IN loop(0)

\* variant of least_used with a fault: the first item of greatest count
most_used(value_map) ==
    ForEach(LAMBDA best, item : IF item[2] > best[2] THEN item ELSE best,
            value_map, value_map[1])

\* min(value_map.items(), key=lambda x: x[1]): the first item of least count
least_used(value_map) ==
    ForEach(LAMBDA best, item : IF item[2] < best[2] THEN item ELSE best,
            value_map, value_map[1])

\* the number of bare entries equal to the sentinel
CountSentinel(compression_result, sentinel, wide) ==
    Cardinality({i \in 1..Len(compression_result) :
                    /\ Len(compression_result[i]) = 1
                    /\ entry_is_sentinel(compression_result[i][1], sentinel, wide)})

\* RLEncodingStatistics.analyze_sentinel(compression_result)
RLEStatistics_analyze_sentinel(statistics, compression_result) ==
    IF ~statistics.use_sentinel THEN statistics
    ELSE LET value_map == RLE_value_map(compression_result)
             absent == first_absent(value_map, statistics.bit_width)
             chosen ==
                 IF statistics.dynamic_sentinel
                 THEN IF absent # None
                      THEN [statistics EXCEPT !.sentinel = absent, !.sentinel_count = 0]
                      ELSE LET least_used_value == least_used(value_map)
                           IN [statistics EXCEPT !.sentinel = least_used_value[1],
                                                 !.sentinel_count = least_used_value[2]]
                 ELSE [statistics EXCEPT
                          !.sentinel = rle_sentinel_for_bit_width(statistics.bit_width)]
         IN IF chosen.sentinel_count < 1
            THEN [chosen EXCEPT !.sentinel_count =
                                    @ + CountSentinel(compression_result, chosen.sentinel,
                                                      wide_sentinel(chosen))]
            ELSE chosen

\* RLEncodingStatistics.size()
RLEStatistics_size(statistics) ==
    LET bit_width == IF statistics.use_sentinel
                     THEN statistics.bit_width
                     ELSE statistics.bit_width + 1
        size == statistics.header_bits
                + statistics.literals * bit_width
                + statistics.references * bit_width
                  * (IF statistics.use_sentinel THEN 3 ELSE 2)
                + statistics.sentinel_count * bit_width * 2
    IN (size + 7) \div 8

\* byte_width = (bit_width + 7) // 8
RLEByteWidth(bit_width) == (bit_width + 7) \div 8

\* max_count = 1 << (bit_width + 1), shifted once more in flag mode
RLEMaxCount(codec) ==
    IF codec.use_sentinel THEN Pow2(codec.bit_width + 1) ELSE Pow2(codec.bit_width + 2)

\* _get_value(data[position:position + byte_width]): the bytes present, little-endian
RLE_get_value(data, position, byte_width) ==
    ForEach(LAMBDA value, byte : value + data[position + byte + 1] * Pow2(byte * 8),
            RangeSeq(Min(byte_width, Len(data) - position)), 0)

\* the inner for loop of RLECodec.compress, started at position with count = 1:
\* the k-th iteration reads the group at position + (k - 1) * byte_width and
\* leaves the loop when it differs from value (or the data has ended), else
\* sets count to k + 1 and leaves when count >= max_count.  The count reached
\* is the first k whose group does not continue the run, capped at max_count.
rle_run_count(data, byte_width, max_count, value, position) ==
    LET groups == (Len(data) - position + byte_width - 1) \div byte_width
        continues(k) ==
            /\ k <= groups
            /\ RLE_get_value(data, position + (k - 1) * byte_width, byte_width) = value
        stops == {k \in 1..(groups + 1) : ~continues(k)}
        first_stop == CHOOSE k \in stops : \A j \in stops : k <= j
    IN Min(first_stop, max_count)

\* the body of the while loop of RLECodec.compress; st holds the locals
\* position, result and statistics
rle_compress_step(codec, data, st) ==
    LET byte_width == RLEByteWidth(codec.bit_width)
        value == RLE_get_value(data, st.position, byte_width)
        count == rle_run_count(data, byte_width, RLEMaxCount(codec), value,
                               st.position + byte_width)
        position == st.position + count * byte_width
    IN IF count >= codec.minimum_loop
       THEN [position |-> position,
             result |-> Append(st.result, <<value, count>>),
             statistics |-> RLEStatistics_add(st.statistics, count)]
       ELSE ForEach(LAMBDA acc, k :
                        [acc EXCEPT !.result = Append(@, <<value>>),
                                    !.statistics = RLEStatistics_add_literal(@)],
                    RangeSeq(count),
                    [st EXCEPT !.position = position])

\* RLECodec.compress(data): [result, statistics]
RLECodec_compress(codec, data) ==
    LET RECURSIVE loop(_)
        loop(st) ==
            IF st.position >= Len(data) THEN st
            ELSE loop(rle_compress_step(codec, data, st))
        st == loop([position |-> 0, result |-> <<>>,
                    statistics |-> RLEncodingStatistics(codec)])
    IN [result |-> st.result,
        statistics |-> RLEStatistics_analyze_sentinel(st.statistics, st.result)]

\* a valuebuffer with the most significant byte first
rle_valuebuffer_big_endian(value, byte_width) ==
    [i \in 1..byte_width |-> (value \div Pow2(8 * (byte_width - i))) % 256]

\* valuebuffer: the byte_width low bytes of value, little-endian
rle_valuebuffer(value, byte_width) ==
    [i \in 1..byte_width |-> (value \div Pow2(8 * (i - 1))) % 256]

\* for i in range(count): bytebuffer.extend(valuebuffer)
rle_extend(bytebuffer, valuebuffer, count) ==
    IF count <= 0 THEN bytebuffer
    ELSE bytebuffer \o [i \in 1..(count * Len(valuebuffer)) |->
                           valuebuffer[((i - 1) % Len(valuebuffer)) + 1]]

\* the body of "for entry in compressed" in RLECodec.decompress
rle_decompress_step(byte_width, bytebuffer, entry) ==
    LET value == entry[1]
        count == IF Len(entry) = 2 THEN entry[2] ELSE 1
    IN rle_extend(bytebuffer, rle_valuebuffer(value, byte_width), count)

\* RLECodec.decompress(compressed), for a codec whose bit_width is bit_width
RLECodec_decompress(bit_width, compressed) ==
    ForEach(LAMBDA bytebuffer, entry :
                rle_decompress_step(RLEByteWidth(bit_width), bytebuffer, entry),
            compressed, <<>>)

\* append_repeat(value, count) of RLECodec.to_binary
RLE_append_repeat(codec, sentinel, wide, bitstream, value, count) ==
    LET count_width == codec.bit_width + (IF codec.use_sentinel THEN 0 ELSE 1)
        head == IF codec.use_sentinel
                THEN Bitstream_append(
                         append_sentinel(bitstream, codec.bit_width, sentinel, wide),
                         codec.bit_width, value)
                ELSE Bitstream_append(Bitstream_append(bitstream, 1, 1),
                                      codec.bit_width, value)
    IN Bitstream_append(head, count_width, count - 1)

\* the header of RLECodec.to_binary
RLEHeader(codec, statistics, token_count) ==
    LET head == Bitstream_append(
                    Bitstream_append(
                        Bitstream_append(Bitstream_new, 7, codec.bit_width - 1),
                        1, IF codec.use_sentinel THEN 1 ELSE 0),
                    codec.size_bits, token_count - 1)
    IN IF codec.use_sentinel
       THEN append_sentinel(head, codec.bit_width, statistics.sentinel,
                            wide_sentinel(statistics))
       ELSE head

\* the body of "for entry in compressed_data" in RLECodec.to_binary
rle_write_token(codec, sentinel, wide, bitstream, entry) ==
    IF Len(entry) = 2
    THEN RLE_append_repeat(codec, sentinel, wide, bitstream, entry[1], entry[2])
    ELSE IF codec.use_sentinel /\ entry_is_sentinel(entry[1], sentinel, wide)
    THEN RLE_append_repeat(codec, sentinel, wide, bitstream, entry[1], 1)
    ELSE IF codec.use_sentinel
    THEN Bitstream_append(bitstream, codec.bit_width, entry[1])
    ELSE Bitstream_append(Bitstream_append(bitstream, 1, 0), codec.bit_width, entry[1])

\* RLECodec.to_binary(compressed_data, statistics): the byte array
RLECodec_to_binary(codec, compressed_data, statistics) ==
    LET sentinel == IF codec.use_sentinel THEN statistics.sentinel ELSE 0
        wide == codec.use_sentinel /\ wide_sentinel(statistics)
    IN Bitstream_to_array(
           ForEach(LAMBDA bitstream, entry :
                       rle_write_token(codec, sentinel, wide, bitstream, entry),
                   compressed_data,
                   RLEHeader(codec, statistics, Len(compressed_data)))).array

\* the body of "for _ in range(count)" in RLECodec.from_binary; st holds the
\* bitstream and compressed_data
rle_read_token(bit_width, use_sentinel, sentinel, st) ==
    IF use_sentinel # 0
    THEN LET first == Bitstream_read(st.bitstream, bit_width) IN
         IF first.value = sentinel
         THEN LET value == Bitstream_read(first.bs, bit_width)
                  repeats == Bitstream_read(value.bs, bit_width)
              IN [bitstream |-> repeats.bs,
                  compressed_data |-> Append(st.compressed_data,
                                             <<value.value, repeats.value + 1>>)]
         ELSE [bitstream |-> first.bs,
               compressed_data |-> Append(st.compressed_data, <<first.value>>)]
    ELSE LET repeat == Bitstream_read(st.bitstream, 1)
             value == Bitstream_read(repeat.bs, bit_width)
         IN IF repeat.value # 0
            THEN LET repeats == Bitstream_read(value.bs, bit_width + 1)
                 IN [bitstream |-> repeats.bs,
                     compressed_data |-> Append(st.compressed_data,
                                                <<value.value, repeats.value + 1>>)]
            ELSE [bitstream |-> value.bs,
                  compressed_data |-> Append(st.compressed_data, <<value.value>>)]

\* RLECodec.from_binary(data): the bit_width it sets on the codec and the token
\* list it returns
RLECodec_from_binary(codec, data) ==
    LET r1 == Bitstream_read(Bitstream_from_array(Bitstream_new, data), 7)
        bit_width == r1.value + 1
        r2 == Bitstream_read(r1.bs, 1)
        r3 == Bitstream_read(r2.bs, codec.size_bits)
        r4 == IF r2.value # 0 THEN Bitstream_read(r3.bs, bit_width)
              ELSE [bs |-> r3.bs, value |-> None]
    IN [bit_width |-> bit_width,
        compressed_data |->
            ForEach(LAMBDA st, k : rle_read_token(bit_width, r2.value, r4.value, st),
                    RangeSeq(r3.value + 1),
                    [bitstream |-> r4.bs, compressed_data |-> <<>>]).compressed_data]

(***************************************************************************)
(* Bounds of the scenarios                                                 *)
(***************************************************************************)

\* longest input string of the LZSS scenario
MaxLen == 10

\* all sequences over S of length 0..n
RECURSIVE SeqsUpTo(_, _)
SeqsUpTo(S, n) ==
    IF n = 0 THEN {<<>>}
    ELSE LET shorter == SeqsUpTo(S, n - 1)
         IN shorter \cup {Append(s, x) : s \in {t \in shorter : Len(t) = n - 1}, x \in S}

LZSSAlphabet == {0, 165}

LZSSInputs == SeqsUpTo(LZSSAlphabet, MaxLen)

\* (window_bits, length_bits, size_bit_count) of the LZSS scenario
LZSSParams == {<<3, 1, 22>>, <<3, 2, 2>>, <<4, 4, 22>>}

IdleBits == [pc |-> "idle"]
IdleLZ == [pc |-> "idle"]
IdleRL == [pc |-> "idle"]
IdleSR == [pc |-> "idle"]
IdlePool == [pc |-> "idle"]

(***************************************************************************)
(* The LZSS scenario: compress, to_binary, from_binary on one input        *)
(***************************************************************************)

LZSSInit ==
    /\ \E data \in LZSSInputs, p \in LZSSParams :
           lz = [pc |-> "input", data |-> data,
                 codec |-> LZSSCodec(p[1], p[2], p[3]),
                 tokens |-> <<>>,
                 statistics |-> LZSSEncodingStatistics(LZSSCodec(p[1], p[2], p[3])),
                 size |-> 0, binary |-> <<>>,
                 decoded |-> [error |-> "none", bytes |-> <<>>]]
    /\ bits = IdleBits
    /\ rl = IdleRL
    /\ sr = IdleSR
    /\ pool = IdlePool

\* (tokens, statistics) = codec.compress(data)
LZSSCompress ==
    /\ lz.pc = "input"
    /\ LET r == LZSSCodec_compress(lz.codec, lz.data)
       IN lz' = [lz EXCEPT !.pc = "compressed", !.tokens = r.results,
                           !.statistics = r.statistics,
                           !.size = LZSSStatistics_size(r.statistics)]
    /\ UNCHANGED <<bits, rl, sr, pool>>

\* binary = codec.to_binary(tokens)
LZSSToBinary ==
    /\ lz.pc = "compressed"
    /\ lz' = [lz EXCEPT !.pc = "encoded",
                        !.binary = LZSSCodec_to_binary(lz.codec, lz.tokens)]
    /\ UNCHANGED <<bits, rl, sr, pool>>

\* decoded = codec.from_binary(binary)
LZSSFromBinary ==
    /\ lz.pc = "encoded"
    /\ lz' = [lz EXCEPT !.pc = "decoded",
                        !.decoded = LZSSCodec_from_binary(lz.codec, lz.binary)]
    /\ UNCHANGED <<bits, rl, sr, pool>>

LZSSNext == LZSSCompress \/ LZSSToBinary \/ LZSSFromBinary

SpecLZSS == LZSSInit /\ [][LZSSNext]_vars

\* number of bare tokens and of 2-tuples in a token list
CountBare(tokens) == Cardinality({i \in 1..Len(tokens) : Len(tokens[i]) = 1})
CountPairs(tokens) == Cardinality({i \in 1..Len(tokens) : Len(tokens[i]) = 2})

\* C1: LZSS binary round-trip.  For every input (the empty one included) and
\* every modelled (window_bits, length_bits), when the token count is below
\* 2^size_bit_count, from_binary(to_binary(compress(b)[0])) returns b.
C1_LZSSRoundTrip ==
    (lz.pc = "decoded" /\ Len(lz.tokens) < Pow2(lz.codec.size_bit_count))
        => (lz.decoded.error = "none" /\ lz.decoded.bytes = lz.data)

\* a decoded input of full length whose tokens hold a self-overlapping
\* back-reference (length greater than the distance)
C1_Witness ==
    /\ lz.pc = "decoded"
    /\ Len(lz.data) = MaxLen
    /\ Len(lz.tokens) < Pow2(lz.codec.size_bit_count)
    /\ \E i \in 1..Len(lz.tokens) :
           Len(lz.tokens[i]) = 2 /\ lz.tokens[i][2] > -lz.tokens[i][1]
    /\ lz.decoded.bytes = lz.data

\* C4: the LZSS size predictor is exact.  The byte length of to_binary(tokens)
\* equals statistics.size(), which is
\* ceil((size_bit_count + 10 + 9*literals + (1 + w + l)*references) / 8).
C4_LZSSSizeExact ==
    lz.pc \in {"encoded", "decoded"} =>
        /\ Len(lz.binary) = lz.size
        /\ lz.size = (lz.codec.size_bit_count + 10
                      + 9 * CountBare(lz.tokens)
                      + (1 + lz.codec.max_window_bits + lz.codec.max_length_bits)
                        * CountPairs(lz.tokens) + 7) \div 8

\* an encoded token list holding literals and back-references
C4_Witness ==
    /\ lz.pc = "encoded"
    /\ CountBare(lz.tokens) >= 2
    /\ CountPairs(lz.tokens) >= 2
    /\ Len(lz.binary) = lz.size

(***************************************************************************)
(* The Bitstream scenario: appends on a fresh stream, to_array, then a     *)
(* second fresh stream loaded with from_array and read                     *)
(***************************************************************************)

\* most append calls of one Bitstream scenario
MaxWrites == 3

BitCounts == {1, 3, 5, 8, 11}

\* the values appended with a given count, each below 2^count
BitValues(count) == {v \in {0, 5, 26, 165, Pow2(count) - 1} :
                        v < Pow2(count) /\ (v > 0 \/ count = 1)}

BitsInit ==
    /\ bits = [pc |-> "writing", writer |-> Bitstream_new, writes |-> <<>>,
               reader |-> Bitstream_new, values |-> <<>>]
    /\ lz = IdleLZ
    /\ rl = IdleRL
    /\ sr = IdleSR
    /\ pool = IdlePool

\* writer.append(count, value)
BitsAppend ==
    /\ bits.pc = "writing"
    /\ Len(bits.writes) < MaxWrites
    /\ \E count \in BitCounts : \E value \in BitValues(count) :
           bits' = [bits EXCEPT !.writer = Bitstream_append(@, count, value),
                                !.writes = Append(@, <<count, value>>)]
    /\ UNCHANGED <<lz, rl, sr, pool>>

\* reader.from_array(writer.to_array())
BitsTransfer ==
    /\ bits.pc = "writing"
    /\ LET r == Bitstream_to_array(bits.writer)
       IN bits' = [bits EXCEPT !.pc = "reading", !.writer = r.bs,
                               !.reader = Bitstream_from_array(@, r.array)]
    /\ UNCHANGED <<lz, rl, sr, pool>>

\* reader.read(count), with the count of the next write of the log
BitsRead ==
    /\ bits.pc = "reading"
    /\ Len(bits.values) < Len(bits.writes)
    /\ LET r == Bitstream_read(bits.reader, bits.writes[Len(bits.values) + 1][1])
       IN bits' = [bits EXCEPT !.reader = r.bs, !.values = Append(@, r.value)]
    /\ UNCHANGED <<lz, rl, sr, pool>>

BitsNext == BitsAppend \/ BitsTransfer \/ BitsRead

SpecBits == BitsInit /\ [][BitsNext]_vars

\* C3: BitStream round-trip.  After any sequence of append(count, value) calls
\* on a fresh stream, a second stream loaded with from_array(to_array()) and
\* read with the same counts returns the same values in order.
C3_BitstreamRoundTrip ==
    bits.pc = "reading" =>
        \A i \in 1..Len(bits.values) : bits.values[i] = bits.writes[i][2]

\* all the writes were read back, one of them wider than a byte and the
\* stream ending in a partial byte
C3_Witness ==
    /\ bits.pc = "reading"
    /\ Len(bits.writes) = MaxWrites
    /\ Len(bits.values) = Len(bits.writes)
    /\ \E i \in 1..Len(bits.writes) : bits.writes[i][1] > 8
    /\ bits.writer.write_position > 0
    /\ \A i \in 1..Len(bits.values) : bits.values[i] = bits.writes[i][2]

(***************************************************************************)
(* The RLE scenario: compress, to_binary, from_binary, decompress          *)
(***************************************************************************)

\* longest input of the exhaustive family of the RLE scenario
RLEMaxLen == 4

\* longest tail appended to an input that holds every value of a width
RLEMaxTail == 1

RLEAlphabet == {0, 1, 31}

\* n copies of v
Run(v, n) == [i \in 1..n |-> v]

\* the bytes lo, lo + 1, ..., hi
Range(lo, hi) == [i \in 1..(hi - lo + 1) |-> lo + i - 1]

RunLengths == {0, 1, 2, 3, 4, 5, 8, 9, 16, 17, 33}

\* inputs of at most two runs
RunInputs == {Run(a, n) \o Run(b, m) : a \in {0, 1}, b \in {1, 2},
                                      n \in RunLengths, m \in RunLengths}

RLETails == SeqsUpTo(RLEAlphabet, RLEMaxTail)

\* inputs in which every value of a nibble is a bare token
FullInputs == {Range(0, 15) \o t : t \in RLETails}
              \cup {t \o Range(0, 15) : t \in RLETails}

\* scenario S6 and the longest run an 8-bit count field holds, plus one
LongInputs == {Run(0, 256) \o <<1, 2, 3>>, Run(0, 256), Run(0, 257)}

\* the inputs run with the parameters p; the long inputs exercise the count
\* field of bit_width 8
RLEInputs(p) == SeqsUpTo(RLEAlphabet, RLEMaxLen) \cup RunInputs \cup FullInputs
                \cup (IF p[1] = 8 THEN LongInputs ELSE {})

\* (bit_width, dynamic_sentinel, size_bits) of the RLE scenario
RLEParams == {<<1, TRUE, 24>>, <<7, TRUE, 24>>, <<4, TRUE, 24>>, <<4, FALSE, 24>>,
              <<8, TRUE, 24>>, <<8, FALSE, 24>>, <<16, TRUE, 24>>,
              <<1, TRUE, 4>>, <<8, TRUE, 4>>}

\* The empty input is encoded with a token count field of all ones, which
\* makes from_binary read 2^size_bits tokens: it is run with size_bits = 4.
RLEInit ==
    /\ \E p \in RLEParams : \E data \in RLEInputs(p) :
           /\ (data = <<>> => p[3] <= 4)
           /\ rl = [pc |-> "input", data |-> data,
                    codec |-> RLECodec(p[1], p[2], p[3]),
                    tokens |-> <<>>,
                    statistics |-> RLEncodingStatistics(RLECodec(p[1], p[2], p[3])),
                    size |-> 0, binary |-> <<>>,
                    bit_width |-> p[1], read |-> <<>>, decoded |-> <<>>]
    /\ bits = IdleBits
    /\ lz = IdleLZ
    /\ sr = IdleSR
    /\ pool = IdlePool

\* (tokens, statistics) = codec.compress(data)
RLECompress ==
    /\ rl.pc = "input"
    /\ LET r == RLECodec_compress(rl.codec, rl.data)
       IN rl' = [rl EXCEPT !.pc = "compressed", !.tokens = r.result,
                           !.statistics = r.statistics,
                           !.size = RLEStatistics_size(r.statistics)]
    /\ UNCHANGED <<bits, lz, sr, pool>>

\* binary = codec.to_binary(tokens, statistics)
RLEToBinary ==
    /\ rl.pc = "compressed"
    /\ rl' = [rl EXCEPT !.pc = "encoded",
                        !.binary = RLECodec_to_binary(rl.codec, rl.tokens, rl.statistics)]
    /\ UNCHANGED <<bits, lz, sr, pool>>

\* read = codec.from_binary(binary), which also sets codec.bit_width
RLEFromBinary ==
    /\ rl.pc = "encoded"
    /\ LET r == RLECodec_from_binary(rl.codec, rl.binary)
       IN rl' = [rl EXCEPT !.pc = "read", !.bit_width = r.bit_width,
                           !.read = r.compressed_data]
    /\ UNCHANGED <<bits, lz, sr, pool>>

\* decoded = codec.decompress(read)
RLEDecompress ==
    /\ rl.pc = "read"
    /\ rl' = [rl EXCEPT !.pc = "decoded",
                        !.decoded = RLECodec_decompress(rl.bit_width, rl.read)]
    /\ UNCHANGED <<bits, lz, sr, pool>>

RLENext == RLECompress \/ RLEToBinary \/ RLEFromBinary \/ RLEDecompress

SpecRLE == RLEInit /\ [][RLENext]_vars

\* the scenario has compressed its input
RLECompressed == rl.pc \in {"compressed", "encoded", "read", "decoded"}

\* the values that occur as bare (non-run) tokens
BareValues(tokens) == {tokens[i][1] : i \in {j \in 1..Len(tokens) : Len(tokens[j]) = 1}}

\* how often v occurs as a bare token
BareCount(tokens, v) ==
    Cardinality({i \in 1..Len(tokens) : Len(tokens[i]) = 1 /\ tokens[i][1] = v})

\* scenario S6: 256 zero bytes followed by 1, 2, 3, at bit_width 8, dynamic sentinel
IsS6 == /\ rl.codec.bit_width = 8
        /\ rl.codec.dynamic_sentinel
        /\ rl.codec.size_bits = 24
        /\ rl.data = Run(0, 256) \o <<1, 2, 3>>

\* C2: RLE binary round-trip.  For every input (the empty one and runs of any
\* length included) and every bit_width that divides len(b)*8, in sentinel and
\* in flag mode, decompress(from_binary(to_binary(tokens, stats))) returns b.
\* (The token count is required to fit the count field, as it does with the
\* default size_bits for every input that fits in memory.)
C2_RLERoundTrip ==
    (/\ rl.pc = "decoded"
     /\ (Len(rl.data) * 8) % rl.codec.bit_width = 0
     /\ Len(rl.tokens) <= Pow2(rl.codec.size_bits))
        => rl.decoded = rl.data

\* C5: the RLE size predictor is sound.  In flag mode, and in sentinel mode when
\* sentinel_count counts every bare token equal to the sentinel, the byte length
\* of to_binary(tokens, stats) is at most stats.size().
C5_RLESizeSound ==
    (/\ rl.pc \in {"encoded", "read", "decoded"}
     /\ (rl.codec.use_sentinel =>
             rl.statistics.sentinel_count
                 = BareCount(rl.tokens, rl.statistics.sentinel)))
        => Len(rl.binary) <= rl.size

\* C9: dynamic sentinel selection.  In sentinel mode with dynamic_sentinel, if
\* some integer of [0, 2^bit_width) is not a bare token, the sentinel is the
\* smallest such integer and sentinel_count is 0; if every integer is a bare
\* token, the sentinel is a bare value of least frequency and sentinel_count
\* is that frequency.
C9_DynamicSentinel ==
    (RLECompressed /\ rl.codec.use_sentinel /\ rl.codec.dynamic_sentinel) =>
        LET bare == BareValues(rl.tokens)
            sentinel == rl.statistics.sentinel
            top == Pow2(rl.codec.bit_width) - 1
        IN IF \E v \in 0..top : v \notin bare
           THEN /\ sentinel \in 0..top
                /\ sentinel \notin bare
                /\ \A v \in 0..(sentinel - 1) : v \in bare
                /\ rl.statistics.sentinel_count = 0
           ELSE /\ sentinel \in bare
                /\ \A v \in bare :
                       BareCount(rl.tokens, sentinel) <= BareCount(rl.tokens, v)
                /\ rl.statistics.sentinel_count = BareCount(rl.tokens, sentinel)

\* a gap above 0: 0 and 1 are bare tokens, the sentinel is a larger value
C9_WitnessAbsent ==
    /\ RLECompressed /\ rl.codec.use_sentinel /\ rl.codec.dynamic_sentinel
    /\ {0, 1} \subseteq BareValues(rl.tokens)
    /\ rl.statistics.sentinel > 1
    /\ rl.statistics.sentinel_count = 0

\* every nibble value is a bare token, with unequal frequencies
C9_Witness ==
    /\ RLECompressed /\ rl.codec.use_sentinel /\ rl.codec.dynamic_sentinel
    /\ rl.codec.bit_width = 4
    /\ 0..15 \subseteq BareValues(rl.tokens)
    /\ \E v \in BareValues(rl.tokens) :
           BareCount(rl.tokens, v) > BareCount(rl.tokens, rl.statistics.sentinel)
    /\ rl.statistics.sentinel_count >= 1

\* C10 as stated (scenario S6): the sentinel chosen is a value in 4..255 absent
\* from the literals, and the decoded bytes equal the input.
C10_S6_AsStated ==
    (rl.pc = "decoded" /\ IsS6) =>
        /\ rl.statistics.sentinel \in 4..255
        /\ rl.statistics.sentinel \notin BareValues(rl.tokens)
        /\ rl.decoded = rl.data

\* C10 amended (scenario S6): the 256 zeros form one run token, so 0 is not a
\* bare token; the sentinel chosen is 0, the smallest value absent from the
\* bare tokens 1, 2, 3, with sentinel_count 0, and the decoded bytes equal the
\* input.
C10_S6_Amended ==
    (rl.pc = "decoded" /\ IsS6) =>
        /\ rl.tokens = <<<<0, 256>>, <<1>>, <<2>>, <<3>>>>
        /\ rl.statistics.sentinel = 0
        /\ rl.statistics.sentinel_count = 0
        /\ rl.decoded = rl.data

\* scenario S6 has been compressed, encoded and decoded
C10_Witness ==
    /\ rl.pc = "decoded"
    /\ IsS6
    /\ Len(rl.decoded) = 259

(***************************************************************************)
(* process_controller.py                                                   *)
(*                                                                         *)
(* A process of the controller's list is [window_bits, length, state]: the *)
(* arguments of its run_compression job and how far the worker has come:   *)
(* "started" (alive, nothing appended yet), "appended" (alive, its result  *)
(* is in the shared list) or "exited" (is_alive() is False).               *)
(***************************************************************************)

\* ProcessController.__init__(max_threads, set_start_method, use_main_process):
\* use_main_process is set to True whatever the argument is
ProcessController(max_threads, set_start_method, use_main_process) ==
    [processes |-> <<>>,
     max_threads |-> max_threads,
     use_main_process |-> TRUE,
     main_running |-> FALSE]

\* ProcessController.available()
available(controller) ==
    controller.max_threads - Len(controller.processes)
        - (IF controller.main_running THEN 1 ELSE 0)

\* ProcessController.running()
running(controller) ==
    Len(controller.processes) + (IF controller.main_running THEN 1 ELSE 0)

\* list.remove of the element at 1-based index i
RemoveAt(seq, i) == SubSeq(seq, 1, i - 1) \o SubSeq(seq, i + 1, Len(seq))

\* one pass of the for loop inside start's "while self.available() < 1": the
\* first process that is not alive is removed
start_reap(processes) ==
    LET dead == {i \in DOMAIN processes : processes[i].state = "exited"}
    IN IF dead = {} THEN processes
       ELSE RemoveAt(processes, CHOOSE i \in dead : \A j \in dead : i <= j)

\* a join_finished that removes no process
ProcessController_join_finished_keeps_all(controller) ==
    [processes |-> controller.processes,
     count |-> IF controller.main_running THEN 1 ELSE 0]

\* ProcessController.join_finished(): "for process in self.processes" walks the
\* list by index while remove() shortens it, so the process that follows a
\* removed one is not visited in this call.  [processes, count]
ProcessController_join_finished(controller) ==
    LET RECURSIVE loop(_)
        loop(st) ==
            IF st.index >= Len(st.processes) THEN st
            ELSE IF st.processes[st.index + 1].state = "exited"
            THEN loop([processes |-> RemoveAt(st.processes, st.index + 1),
                       index |-> st.index + 1, count |-> st.count + 1])
            ELSE loop([st EXCEPT !.index = @ + 1])
        st == loop([processes |-> controller.processes, index |-> 0, count |-> 0])
    IN [processes |-> st.processes,
        count |-> st.count + (IF controller.main_running THEN 1 ELSE 0)]

\* ProcessController.join_all(): the state of its for loop when the call
\* begins.  [processes, index, count, joined], joined the processes it has
\* waited for
join_all_begin(controller) ==
    [processes |-> controller.processes, index |-> 0, count |-> 0, joined |-> <<>>]

\* the for loop of join_all is at a process: process.join() is the next
\* statement
join_all_visiting(st) == st.index < Len(st.processes)

\* process.join() can return: the visited process has ended.  While it is
\* alive the call stays in process.join()
join_all_can_join(st) ==
    join_all_visiting(st) /\ st.processes[st.index + 1].state = "exited"

\* one pass of the for loop of join_all once process.join() has returned:
\* self.processes.remove(process); count += 1.  The loop walks the list by
\* index while remove() shortens it.
join_all_step(st) ==
    [processes |-> RemoveAt(st.processes, st.index + 1),
     index |-> st.index + 1,
     count |-> st.count + 1,
     joined |-> Append(st.joined, st.processes[st.index + 1])]

\* ProcessController.kill_all(): the walk of join_all with process.kill(),
\* which does not wait.  [processes, count, joined], joined the processes it
\* killed
ProcessController_kill_all(controller) ==
    LET RECURSIVE loop(_)
        loop(st) ==
            IF st.index >= Len(st.processes) THEN st
            ELSE loop([processes |-> RemoveAt(st.processes, st.index + 1),
                       index |-> st.index + 1, count |-> st.count + 1,
                       joined |-> Append(st.joined, st.processes[st.index + 1])])
    IN loop([processes |-> controller.processes, index |-> 0, count |-> 0,
             joined |-> <<>>])

\* a start that spawns a process whatever the number of free slots
start_mode_always_spawn(controller) ==
    "spawn"

\* what ProcessController.start does next: "wait" inside its while loop when
\* no slot is free, "inline" when exactly one slot is free and use_main_process
\* is set, else "spawn"
start_mode(controller) ==
    IF available(controller) < 1 THEN "wait"
    ELSE IF available(controller) = 1 /\ controller.use_main_process THEN "inline"
    ELSE "spawn"

(***************************************************************************)
(* compress.py: CompressionRunner                                          *)
(*                                                                         *)
(* s is the runner with the locals of find_best_compression: buffer,       *)
(* max_window_bits, max_length_bits, worse_allowed, controller, results,   *)
(* window_bits, lowest_window_bits, length_bits, lowest_length_bits,       *)
(* additional_combinations, index (the position of the for loop over       *)
(* additional_combinations), pc (the statement the coordinator is at),     *)
(* job and resume (the job run on the coordinator, and the statement that  *)
(* follows it), returned and error.  started lists the jobs handed to      *)
(* controller.start, left_running records that a descent loop was left by  *)
(* break while a worker had not appended its result yet.                   *)
(***************************************************************************)

\* float("inf"), above every size
inf == 1073741824

\* CompressionRunner.__init__(codec, buffer, max_window_bits, max_length_bits,
\* max_threads); max_length_bits None stands for the default
CompressionRunner(buffer, max_window_bits, max_length_bits, max_threads) ==
    LET window == sanitize_buffer_address(buffer, max_window_bits) IN
    [buffer |-> buffer,
     worse_allowed |-> 0,
     controller |-> ProcessController(max_threads, TRUE, TRUE),
     max_window_bits |-> window,
     max_length_bits |-> IF max_length_bits # None
                         THEN sanitize_buffer_address(buffer, max_length_bits)
                         ELSE window,
     results |-> <<>>]

\* run_compression(window_bits, length): the CompressionResult appended to the
\* results (its statistics are read through size only)
run_compression(buffer, window_bits, length) ==
    LET codec == LZSSCodec(window_bits, length, 22)
        r == LZSSCodec_compress(codec, buffer)
    IN [window_bits |-> window_bits, length_bits |-> length,
        size |-> LZSSStatistics_size(r.statistics), compressed |-> r.results]

\* get_key(result) for the two key functions find_best_compression passes,
\* lambda r: r.window_bits and lambda r: r.length_bits: get_key names the field
key_of(result, get_key) == result[get_key]

\* sorted(series, key=get_key, reverse=True): stable, keys are bit counts 0..16
SortedReverse(series, get_key) ==
    ForEach(LAMBDA acc, k :
                acc \o SelectSeq(series, LAMBDA r : key_of(r, get_key) = 16 - k),
            RangeSeq(17), <<>>)

\* the body of the for loop of find_reversion; acc holds its locals, and done
\* once a return statement was reached
find_reversion_step(worse_allowed, get_key, acc, result) ==
    LET key == key_of(result, get_key) IN
    IF acc.done THEN acc
    ELSE IF key # acc.expected_key
    THEN [acc EXCEPT !.done = TRUE, !.lowest_size_key = None,
                     !.allowed_worse = worse_allowed]
    ELSE IF result.size > acc.lowest_size
    THEN IF acc.allowed_worse - 1 < 0
         THEN [acc EXCEPT !.done = TRUE, !.allowed_worse = @ - 1]
         ELSE [acc EXCEPT !.allowed_worse = @ - 1, !.expected_key = @ - 1]
    ELSE [acc EXCEPT !.allowed_worse = IF result.size < acc.lowest_size
                                       THEN worse_allowed ELSE @,
                     !.lowest_size_key = key,
                     !.lowest_size = result.size,
                     !.expected_key = @ - 1]

\* find_reversion(series, max_key, get_key): [key, allowed_worse]
find_reversion(worse_allowed, series, max_key, get_key) ==
    LET acc == ForEach(LAMBDA a, result :
                           find_reversion_step(worse_allowed, get_key, a, result),
                       SortedReverse(series, get_key),
                       [done |-> FALSE, lowest_size |-> inf,
                        expected_key |-> max_key, lowest_size_key |-> max_key,
                        allowed_worse |-> worse_allowed])
    IN [key |-> acc.lowest_size_key, allowed_worse |-> acc.allowed_worse]

\* [r for r in self.results if r.length_bits == self.max_length_bits], scanned
\* by window_bits
window_reversion(s) ==
    find_reversion(s.worse_allowed,
                   SelectSeq(s.results, LAMBDA r : r.length_bits = s.max_length_bits),
                   s.max_window_bits, "window_bits")

\* [r for r in self.results if r.window_bits == self.max_window_bits], scanned
\* by length_bits
length_reversion(s) ==
    find_reversion(s.worse_allowed,
                   SelectSeq(s.results, LAMBDA r : r.window_bits = s.max_window_bits),
                   s.max_length_bits, "length_bits")

\* join_finished() of find_best_compression: [processes, count]
join_finished(s) ==
    IF s.controller.max_threads = 1
    THEN [processes |-> s.controller.processes, count |-> 1]
    ELSE ProcessController_join_finished(s.controller)

\* best_result(): the first result of least size, None for an empty list
best_result(results) ==
    IF Len(results) < 1 THEN None
    ELSE ForEach(LAMBDA best, r : IF r.size < best.size THEN r ELSE best,
                 results, results[1])

\* a finished that stops at the loop condition alone, worker processes running or not
finished_without_waiting(s, condition) ==
    condition

\* finished(condition)
finished(s, condition) ==
    \/ (s.controller.max_threads > 1 /\ running(s.controller) < 1)
    \/ (s.controller.max_threads = 1 /\ condition)

\* the locals of find_best_compression that the statements following a
\* compress() call assign; none is pending outside an inline job
NoPending ==
    [window_bits |-> None, length_bits |-> None,
     additional_combinations |-> <<>>, index |-> 0]

\* ProcessController.start(run_compression, (window_bits, length)); after is s
\* as it is once start has returned and the caller's statements that follow
\* the call have run.  While no slot is free the call stays in its while
\* loop.  With one slot free the job runs on the coordinator, inside start:
\* the caller's locals stay as they are while target(*args) runs, and the
\* statements that follow the call (kept in pending, with the position to go
\* on at in resume) run once the job is done.  Else a process is started and
\* start returns at once.
ProcessController_start(s, window_bits, length, after) ==
    IF available(s.controller) < 1
    THEN [s EXCEPT !.controller.processes = start_reap(@)]
    ELSE IF available(s.controller) = 1 /\ s.controller.use_main_process
    THEN [s EXCEPT !.controller.main_running = TRUE,
                   !.job = <<window_bits, length>>,
                   !.resume = after.pc,
                   !.pending = [window_bits |-> after.window_bits,
                                length_bits |-> after.length_bits,
                                additional_combinations |->
                                    after.additional_combinations,
                                index |-> after.index],
                   !.pc = "run_compression",
                   !.started = Append(@, <<window_bits, length>>)]
    ELSE [after EXCEPT !.controller.processes =
                           Append(@, [window_bits |-> window_bits, length |-> length,
                                      state |-> "started"]),
                       !.started = Append(@, <<window_bits, length>>)]

\* compress(window_bits, length_bits) of find_best_compression
compress(s, window_bits, length_bits, after) ==
    IF /\ \A i \in DOMAIN s.results :
              ~(s.results[i].window_bits = window_bits
                /\ s.results[i].length_bits = length_bits)
       /\ 2 < window_bits /\ window_bits <= s.max_window_bits
       /\ 0 < length_bits /\ length_bits <= s.max_length_bits
    THEN ProcessController_start(s, window_bits, length_bits, after)
    ELSE after

\* initial_window_bits_count, start_window_bits, start_length_bits
initial_window_bits_count(s) == (s.controller.max_threads + 1) \div 2
start_window_bits(s) == s.max_window_bits - initial_window_bits_count(s)
start_length_bits(s) ==
    s.max_length_bits - s.controller.max_threads + initial_window_bits_count(s) - 1

\* a worker that has not appended its result yet
Unpublished(s) ==
    \E i \in DOMAIN s.controller.processes :
        s.controller.processes[i].state = "started"

(***************************************************************************)
(* The search scenario: one call of find_best_compression, the coordinator *)
(* taking one statement at a time while the workers append and exit        *)
(***************************************************************************)

\* most processes and coordinator together (max_threads)
MaxThreads == 4

\* the buffers searched: no repetition at all; one long run; a repetition that
\* only a window of 4 bits reaches
SearchBuffers == {<<1, 2, 3, 4, 5, 6, 7, 8>>,
                  <<0, 0, 0, 0, 0, 0, 0, 0>>,
                  <<1, 2, 3, 4, 5, 6, 7, 8, 9, 10, 1, 2, 3, 4>>}

\* (max_window_bits, max_length_bits) handed to CompressionRunner
SearchArguments == {<<4, 3>>, <<4, 2>>, <<16, None>>}

SearchInit ==
    /\ \E buffer \in SearchBuffers, a \in SearchArguments, max_threads \in 1..MaxThreads :
           LET runner == CompressionRunner(buffer, a[1], a[2], max_threads) IN
           sr = [pc |-> "seed_window",
                 buffer |-> runner.buffer,
                 worse_allowed |-> runner.worse_allowed,
                 controller |-> runner.controller,
                 max_window_bits |-> runner.max_window_bits,
                 max_length_bits |-> runner.max_length_bits,
                 results |-> runner.results,
                 window_bits |-> None,
                 lowest_window_bits |-> None,
                 length_bits |-> None,
                 lowest_length_bits |-> None,
                 additional_combinations |-> <<>>,
                 index |-> 0,
                 job |-> <<>>,
                 resume |-> "",
                 pending |-> NoPending,
                 returned |-> <<>>,
                 error |-> "none",
                 started |-> <<>>,
                 left_running |-> FALSE]
    /\ bits = IdleBits
    /\ lz = IdleLZ
    /\ rl = IdleRL
    /\ pool = IdlePool

\* for window_bits in range(max_window_bits, start_window_bits, -1):
\*     compress(window_bits, max_length_bits)
\* index counts the passes done; each pass binds window_bits before compress
SeedWindow ==
    /\ sr.pc = "seed_window"
    /\ LET value == sr.max_window_bits - sr.index
           bound == [sr EXCEPT !.window_bits = value]
       IN sr' = IF value > start_window_bits(sr)
                THEN compress(bound, value, sr.max_length_bits,
                              [bound EXCEPT !.index = @ + 1])
                ELSE [sr EXCEPT !.pc = "seed_length", !.index = 0]
    /\ UNCHANGED <<bits, lz, rl, pool>>

\* for length_bits in range(max_length_bits - 1, start_length_bits, -1):
\*     compress(max_window_bits, length_bits)
\* then window_bits = start_window_bits; lowest_window_bits = max_window_bits.
\* length_bits stays unbound when the range is empty.
SeedLength ==
    /\ sr.pc = "seed_length"
    /\ LET value == sr.max_length_bits - 1 - sr.index
           bound == [sr EXCEPT !.length_bits = value]
       IN sr' = IF value > start_length_bits(sr)
                THEN compress(bound, sr.max_window_bits, value,
                              [bound EXCEPT !.index = @ + 1])
                ELSE [sr EXCEPT !.pc = "window_join",
                                !.index = 0,
                                !.window_bits = start_window_bits(sr),
                                !.lowest_window_bits = sr.max_window_bits]
    /\ UNCHANGED <<bits, lz, rl, pool>>

\* window loop: if join_finished() > 0: ... find_reversion ... break
WindowJoin ==
    /\ sr.pc = "window_join"
    /\ LET j == join_finished(sr)
           joined == [sr EXCEPT !.controller.processes = j.processes]
           reversion == window_reversion(joined)
       IN sr' = IF j.count > 0
                THEN IF reversion.key # None /\ reversion.allowed_worse < 0
                     THEN [joined EXCEPT !.lowest_window_bits = reversion.key,
                                         !.pc = "length_init",
                                         !.left_running = @ \/ Unpublished(joined)]
                     ELSE [joined EXCEPT !.lowest_window_bits = reversion.key,
                                         !.pc = "window_submit"]
                ELSE [joined EXCEPT !.pc = "window_submit"]
    /\ UNCHANGED <<bits, lz, rl, pool>>

\* window loop: for window_bits in filter_for_threads(range(window_bits, 2, -1)):
\*     compress(window_bits, max_length_bits); window_bits -= 1
WindowSubmit ==
    /\ sr.pc = "window_submit"
    /\ sr' = IF sr.window_bits > 2 /\ available(sr.controller) > 0
             THEN compress(sr, sr.window_bits, sr.max_length_bits,
                           [sr EXCEPT !.window_bits = @ - 1,
                                      !.pc = IF sr.controller.max_threads = 1
                                             THEN "window_check" ELSE @])
             ELSE [sr EXCEPT !.pc = "window_check"]
    /\ UNCHANGED <<bits, lz, rl, pool>>

\* window loop: if finished(window_bits < 3): ... break
WindowCheck ==
    /\ sr.pc = "window_check"
    /\ sr' = IF finished(sr, sr.window_bits < 3)
             THEN [sr EXCEPT !.lowest_window_bits =
                                 IF sr.controller.max_threads = 1
                                 THEN window_reversion(sr).key ELSE @,
                             !.pc = "length_init"]
             ELSE [sr EXCEPT !.pc = "window_join"]
    /\ UNCHANGED <<bits, lz, rl, pool>>

\* length_bits = min(r.length_bits for r in results if r.window_bits == max_window_bits)
\* lowest_length_bits = 1
LengthInit ==
    /\ sr.pc = "length_init"
    /\ LET lengths == {sr.results[i].length_bits :
                          i \in {k \in DOMAIN sr.results :
                                    sr.results[k].window_bits = sr.max_window_bits}}
       IN sr' = IF lengths = {}
                THEN [sr EXCEPT !.pc = "raised", !.error = "ValueError"]
                ELSE [sr EXCEPT !.length_bits =
                                    CHOOSE l \in lengths : \A m \in lengths : l <= m,
                                !.lowest_length_bits = 1,
                                !.pc = "length_join"]
    /\ UNCHANGED <<bits, lz, rl, pool>>

\* length loop: if join_finished() > 0: ... find_reversion ... break
LengthJoin ==
    /\ sr.pc = "length_join"
    /\ LET j == join_finished(sr)
           joined == [sr EXCEPT !.controller.processes = j.processes]
           reversion == length_reversion(joined)
       IN sr' = IF j.count > 0
                THEN IF reversion.key # None /\ reversion.allowed_worse < 0
                     THEN [joined EXCEPT !.lowest_length_bits = reversion.key,
                                         !.pc = "refine_init",
                                         !.left_running = @ \/ Unpublished(joined)]
                     ELSE [joined EXCEPT !.lowest_length_bits = reversion.key,
                                         !.pc = "length_submit"]
                ELSE [joined EXCEPT !.pc = "length_submit"]
    /\ UNCHANGED <<bits, lz, rl, pool>>

\* length loop: for length_bits in filter_for_threads(range(length_bits, 0, -1)):
\*     compress(max_window_bits, length_bits); length_bits -= 1
LengthSubmit ==
    /\ sr.pc = "length_submit"
    /\ sr' = IF sr.length_bits > 0 /\ available(sr.controller) > 0
             THEN compress(sr, sr.max_window_bits, sr.length_bits,
                           [sr EXCEPT !.length_bits = @ - 1,
                                      !.pc = IF sr.controller.max_threads = 1
                                             THEN "length_check" ELSE @])
             ELSE [sr EXCEPT !.pc = "length_check"]
    /\ UNCHANGED <<bits, lz, rl, pool>>

\* length loop: if finished(length_bits < 1): ... break
LengthCheck ==
    /\ sr.pc = "length_check"
    /\ sr' = IF finished(sr, sr.length_bits < 1)
             THEN [sr EXCEPT !.lowest_length_bits =
                                 IF sr.controller.max_threads = 1
                                 THEN length_reversion(sr).key ELSE @,
                             !.pc = "refine_init"]
             ELSE [sr EXCEPT !.pc = "length_join"]
    /\ UNCHANGED <<bits, lz, rl, pool>>

\* additional_combinations: window_bits in range(lowest_window_bits - 1,
\* lowest_window_bits + 1), length_bits in range(lowest_length_bits - 1,
\* lowest_length_bits + 1), the legal ones.  lowest_window_bits None raises
\* TypeError at the outer range(); lowest_length_bits None raises it at the
\* inner range(), in the first pass of the outer loop whose window_bits passes
\* the window test (window_bits is bound by then), and not at all when neither
\* does.  The two for loops leave window_bits at lowest_window_bits and, when
\* the inner loop ran, length_bits at lowest_length_bits.
RefineInit ==
    /\ sr.pc = "refine_init"
    /\ LET w == sr.lowest_window_bits
           l == sr.lowest_length_bits
           inner(window_bits) == window_bits > 2 /\ window_bits <= sr.max_window_bits
           legal(c) == /\ c[1] > 2 /\ c[1] <= sr.max_window_bits
                       /\ c[2] > 0 /\ c[2] <= sr.max_length_bits
       IN sr' = IF w = None
                THEN [sr EXCEPT !.pc = "raised", !.error = "TypeError"]
                ELSE IF l = None /\ inner(w - 1)
                THEN [sr EXCEPT !.window_bits = w - 1,
                                !.pc = "raised", !.error = "TypeError"]
                ELSE IF l = None /\ inner(w)
                THEN [sr EXCEPT !.window_bits = w,
                                !.pc = "raised", !.error = "TypeError"]
                ELSE IF l = None
                THEN [sr EXCEPT !.additional_combinations = <<>>,
                                !.window_bits = w,
                                !.pc = "refine_join"]
                ELSE [sr EXCEPT !.additional_combinations =
                                    SelectSeq(<<<<w - 1, l - 1>>, <<w - 1, l>>,
                                                <<w, l - 1>>, <<w, l>>>>, legal),
                                !.window_bits = w,
                                !.length_bits = IF inner(w - 1) \/ inner(w)
                                                THEN l ELSE @,
                                !.pc = "refine_join"]
    /\ UNCHANGED <<bits, lz, rl, pool>>

\* refinement loop: join_finished()
RefineJoin ==
    /\ sr.pc = "refine_join"
    /\ sr' = [sr EXCEPT !.controller.processes = join_finished(sr).processes,
                        !.index = 0,
                        !.pc = "refine_submit"]
    /\ UNCHANGED <<bits, lz, rl, pool>>

\* refinement loop: for window_bits, length_bits in
\* filter_for_threads(additional_combinations): compress(window_bits, length_bits);
\* additional_combinations.remove((window_bits, length_bits)).  The for loop
\* walks the list by index while remove() shortens it, and binds window_bits
\* and length_bits to the pair before compress.
RefineSubmit ==
    /\ sr.pc = "refine_submit"
    /\ sr' = IF /\ sr.index < Len(sr.additional_combinations)
                /\ available(sr.controller) > 0
             THEN LET c == sr.additional_combinations[sr.index + 1]
                      bound == [sr EXCEPT !.window_bits = c[1], !.length_bits = c[2]]
                  IN compress(bound, c[1], c[2],
                         [bound EXCEPT !.additional_combinations =
                                           RemoveAt(@, sr.index + 1),
                                       !.index = @ + 1,
                                       !.pc = IF sr.controller.max_threads = 1
                                              THEN "refine_check" ELSE @])
             ELSE [sr EXCEPT !.pc = "refine_check"]
    /\ UNCHANGED <<bits, lz, rl, pool>>

\* refinement loop: if finished(len(additional_combinations) < 1): break
RefineCheck ==
    /\ sr.pc = "refine_check"
    /\ sr' = IF finished(sr, Len(sr.additional_combinations) < 1)
             THEN [sr EXCEPT !.pc = "return"]
             ELSE [sr EXCEPT !.pc = "refine_join"]
    /\ UNCHANGED <<bits, lz, rl, pool>>

\* result = best_result(); result.pass_count = len(self.results)
\* return self.codec(result.window_bits, result.length_bits)
\*            .to_binary(result.compressed), result
Return ==
    /\ sr.pc = "return"
    /\ sr' = IF Len(sr.results) < 1
             THEN [sr EXCEPT !.pc = "raised", !.error = "AttributeError"]
             ELSE LET result == best_result(sr.results)
                      codec == LZSSCodec(result.window_bits, result.length_bits, 22)
                  IN [sr EXCEPT !.pc = "returned",
                                !.returned =
                                    [bytes |-> LZSSCodec_to_binary(codec, result.compressed),
                                     window_bits |-> result.window_bits,
                                     length_bits |-> result.length_bits,
                                     size |-> result.size,
                                     compressed |-> result.compressed,
                                     pass_count |-> Len(sr.results)]]
    /\ UNCHANGED <<bits, lz, rl, pool>>

\* the job that start runs on the coordinator: target(*args), then
\* main_running = False; start returns and the caller's statements that follow
\* the compress() call run
RunCompression ==
    /\ sr.pc = "run_compression"
    /\ sr' = [sr EXCEPT !.results = Append(@, run_compression(sr.buffer, sr.job[1],
                                                               sr.job[2])),
                        !.controller.main_running = FALSE,
                        !.window_bits = sr.pending.window_bits,
                        !.length_bits = sr.pending.length_bits,
                        !.additional_combinations =
                            sr.pending.additional_combinations,
                        !.index = sr.pending.index,
                        !.pending = NoPending,
                        !.pc = sr.resume]
    /\ UNCHANGED <<bits, lz, rl, pool>>

\* a worker process appends its result to the shared list
WorkerAppend ==
    /\ sr.pc # "idle"
    /\ \E i \in DOMAIN sr.controller.processes :
           /\ sr.controller.processes[i].state = "started"
           /\ sr' = [sr EXCEPT !.results =
                                   Append(@, run_compression(sr.buffer,
                                                 sr.controller.processes[i].window_bits,
                                                 sr.controller.processes[i].length)),
                               !.controller.processes[i].state = "appended"]
    /\ UNCHANGED <<bits, lz, rl, pool>>

\* a worker process ends
WorkerExit ==
    /\ sr.pc # "idle"
    /\ \E i \in DOMAIN sr.controller.processes :
           /\ sr.controller.processes[i].state = "appended"
           /\ sr' = [sr EXCEPT !.controller.processes[i].state = "exited"]
    /\ UNCHANGED <<bits, lz, rl, pool>>

SearchNext ==
    \/ SeedWindow \/ SeedLength
    \/ WindowJoin \/ WindowSubmit \/ WindowCheck
    \/ LengthInit \/ LengthJoin \/ LengthSubmit \/ LengthCheck
    \/ RefineInit \/ RefineJoin \/ RefineSubmit \/ RefineCheck
    \/ Return \/ RunCompression \/ WorkerAppend \/ WorkerExit

SpecSearch == SearchInit /\ [][SearchNext]_vars

\* multiset count of a (window_bits, length_bits) pair among the started jobs
StartedCount(pair) ==
    Cardinality({i \in DOMAIN sr.started : sr.started[i] = pair})

\* the same count among the published results
PublishedCount(pair) ==
    Cardinality({i \in DOMAIN sr.results :
                    <<sr.results[i].window_bits, sr.results[i].length_bits>> = pair})

\* C6 - Search optimality: when find_best_compression returns, every job it
\* started has published its result (no process is left, the coordinator runs
\* no job, and each started pair has as many results as it has starts), the
\* returned result is no larger than any entry of the results list, and the
\* returned bytes are the to_binary encoding of the tokens that compressing
\* the buffer with the returned pair gives.
C6_SearchOptimality ==
    sr.pc = "returned" =>
        /\ running(sr.controller) = 0
        /\ \A i \in DOMAIN sr.started :
               PublishedCount(sr.started[i]) = StartedCount(sr.started[i])
        /\ Len(sr.results) = Len(sr.started)
        /\ \A i \in DOMAIN sr.results : sr.returned.size <= sr.results[i].size
        /\ sr.returned.pass_count = Len(sr.results)
        /\ LET codec == LZSSCodec(sr.returned.window_bits, sr.returned.length_bits, 22)
           IN sr.returned.bytes =
                  LZSSCodec_to_binary(codec, LZSSCodec_compress(codec, sr.buffer).results)

\* a search with worker processes returned after a descent loop had been left
\* while a worker had not yet published, with results of different sizes
C6_Witness ==
    /\ sr.pc = "returned"
    /\ sr.controller.max_threads > 1
    /\ sr.left_running
    /\ \E i \in DOMAIN sr.results : sr.results[i].size > sr.returned.size

\* the legal pairs around the two descent minima
Neighbourhood3x3 ==
    {c \in ((sr.lowest_window_bits - 1)..(sr.lowest_window_bits + 1))
           \X ((sr.lowest_length_bits - 1)..(sr.lowest_length_bits + 1)) :
        /\ 3 <= c[1] /\ c[1] <= sr.max_window_bits
        /\ 1 <= c[2] /\ c[2] <= sr.max_length_bits}

\* C7 - Refinement neighbourhood: when find_best_compression returns, every
\* legal pair of the 3x3 neighbourhood of (lowest_window_bits,
\* lowest_length_bits), the minima of the two descents, has a result in the
\* results list.
C7_Neighbourhood3x3 ==
    sr.pc = "returned" => \A c \in Neighbourhood3x3 : PublishedCount(c) > 0

\* (w1, l1) is not after (w2, l2) in the order of smaller (w, l) first
PairLeq(w1, l1, w2, l2) == w1 < w2 \/ (w1 = w2 /\ l1 <= l2)

\* C8 - Deterministic final choice with tie-break: among the results of equal
\* minimal size the returned pair is the one with the smallest (w, l), so it
\* depends on the set of results only, not on the order they were appended in.
C8_TieBreakSmallestPair ==
    sr.pc = "returned" =>
        \A i \in DOMAIN sr.results :
            sr.results[i].size = sr.returned.size =>
                PairLeq(sr.returned.window_bits, sr.returned.length_bits,
                        sr.results[i].window_bits, sr.results[i].length_bits)

(***************************************************************************)
(* The RLE token scenario: compress, then decompress of the tokens         *)
(***************************************************************************)

\* scenario S2 (300 bytes 0x41) and runs of max_count groups, and one more,
\* for the widths whose max_count is 512
RLETokenRuns == {Run(65, 300), Run(65, 512), Run(65, 513)}

RLETokensInit ==
    /\ \E p \in RLEParams :
       \E data \in RLEInputs(p) \cup (IF p[1] \in {7, 8} THEN RLETokenRuns ELSE {}) :
           rl = [pc |-> "input", data |-> data,
                 codec |-> RLECodec(p[1], p[2], p[3]),
                 tokens |-> <<>>,
                 statistics |-> RLEncodingStatistics(RLECodec(p[1], p[2], p[3])),
                 size |-> 0, binary |-> <<>>,
                 bit_width |-> p[1], read |-> <<>>, decoded |-> <<>>]
    /\ bits = IdleBits
    /\ lz = IdleLZ
    /\ sr = IdleSR
    /\ pool = IdlePool

\* decoded = codec.decompress(tokens), the tokens as compress returned them
RLEDecompressTokens ==
    /\ rl.pc = "compressed"
    /\ rl' = [rl EXCEPT !.pc = "expanded",
                        !.decoded = RLECodec_decompress(rl.codec.bit_width, rl.tokens)]
    /\ UNCHANGED <<bits, lz, sr, pool>>

RLETokensNext == RLECompress \/ RLEDecompressTokens

SpecRLETokens == RLETokensInit /\ [][RLETokensNext]_vars

\* the number of groups of byte_width bytes in the input
RLEGroups == Len(rl.data) \div RLEByteWidth(rl.codec.bit_width)

\* the input is a whole number of groups, all equal to the first
RLEEqualGroups ==
    LET byte_width == RLEByteWidth(rl.codec.bit_width) IN
    /\ Len(rl.data) % byte_width = 0
    /\ \A i \in 1..Len(rl.data) : rl.data[i] = rl.data[((i - 1) % byte_width) + 1]

\* C11 - RLE token-level round trip: for every bit_width and every input whose
\* length is a multiple of byte_width, decompress(compress(b)[0]) == b; and an
\* input of n equal groups with minimum_loop <= n <= max_count compresses to
\* the single token (value, n).
C11_RLETokenRoundTrip ==
    rl.pc = "expanded" =>
        /\ (Len(rl.data) % RLEByteWidth(rl.codec.bit_width) = 0 => rl.decoded = rl.data)
        /\ ((/\ RLEEqualGroups
             /\ rl.codec.minimum_loop <= RLEGroups
             /\ RLEGroups <= RLEMaxCount(rl.codec))
                => rl.tokens = <<<<RLE_get_value(rl.data, 0,
                                                  RLEByteWidth(rl.codec.bit_width)),
                                    RLEGroups>>>>)

\* scenario S2: 300 bytes 0x41 at bit_width 8 gave [(0x41, 300)] and came back
C11_Witness ==
    /\ rl.pc = "expanded"
    /\ rl.codec.bit_width = 8
    /\ rl.data = Run(65, 300)
    /\ rl.tokens = <<<<65, 300>>>>
    /\ rl.decoded = rl.data

(***************************************************************************)
(* The LZSS token scenario: compress, then decompress of the tokens        *)
(***************************************************************************)

\* b"abcabcabcabc" of scenario S1, and two more inputs of one repeated unit
LZSSOverlapInputs == {<<97, 98, 99, 97, 98, 99, 97, 98, 99, 97, 98, 99>>,
                      <<97, 97, 97, 97, 97, 97, 97, 97, 97, 97>>,
                      <<97, 98, 97, 98, 97, 98, 97, 98, 97, 98, 97, 98>>}

\* (window_bits, length_bits, size_bit_count) of the LZSS token scenario
LZSSTokenParams == {<<4, 4, 22>>, <<4, 3, 22>>, <<3, 1, 22>>}

LZSSTokensInit ==
    /\ \E data \in LZSSInputs \cup LZSSOverlapInputs, p \in LZSSTokenParams :
           lz = [pc |-> "input", data |-> data,
                 codec |-> LZSSCodec(p[1], p[2], p[3]),
                 tokens |-> <<>>,
                 statistics |-> LZSSEncodingStatistics(LZSSCodec(p[1], p[2], p[3])),
                 size |-> 0, binary |-> <<>>,
                 decoded |-> [error |-> "none", bytes |-> <<>>]]
    /\ bits = IdleBits
    /\ rl = IdleRL
    /\ sr = IdleSR
    /\ pool = IdlePool

\* decoded = codec.decompress(tokens), the tokens as compress returned them
LZSSDecompressTokens ==
    /\ lz.pc = "compressed"
    /\ lz' = [lz EXCEPT !.pc = "expanded",
                        !.decoded = LZSSCodec_decompress(lz.tokens)]
    /\ UNCHANGED <<bits, rl, sr, pool>>

LZSSTokensNext == LZSSCompress \/ LZSSDecompressTokens

SpecLZSSTokens == LZSSTokensInit /\ [][LZSSTokensNext]_vars

\* scenario S1: LZSSCodec(4, 4) on b"abcabcabcabc"
IsS1 == /\ lz.codec.max_window_bits = 4
        /\ lz.codec.max_length_bits = 4
        /\ lz.data = <<97, 98, 99, 97, 98, 99, 97, 98, 99, 97, 98, 99>>

\* C12 - Scenario S1 (self-overlapping match): LZSSCodec(4, 4) on
\* b"abcabcabcabc" gives a prefix of literal tokens followed by one
\* back-reference whose length is at least 9 and longer than its offset, and
\* decompress of those tokens returns the input.
C12_S1_SelfOverlap ==
    (lz.pc = "expanded" /\ IsS1) =>
        LET last == Len(lz.tokens) IN
        /\ last >= 2
        /\ \A i \in 1..(last - 1) : Len(lz.tokens[i]) = 1
        /\ Len(lz.tokens[last]) = 2
        /\ lz.tokens[last][2] >= 9
        /\ lz.tokens[last][2] > -lz.tokens[last][1]
        /\ lz.decoded.error = "none"
        /\ lz.decoded.bytes = lz.data

\* scenario S1 has been compressed to [97, 98, 99, (-3, 9)] and expanded
C12_Witness ==
    /\ lz.pc = "expanded"
    /\ IsS1
    /\ lz.tokens = <<<<97>>, <<98>>, <<99>>, <<-3, 9>>>>
    /\ lz.decoded.bytes = lz.data

(***************************************************************************)
(* The packing scenario: append calls with any value, then to_array        *)
(***************************************************************************)

\* the values appended in the packing scenario, whatever the count: some have
\* more than count bits
PackValues == {0, 5, 26, 165, 1023}

\* writer.append(count, value)
PackAppend ==
    /\ bits.pc = "writing"
    /\ Len(bits.writes) < MaxWrites
    /\ \E count \in BitCounts : \E value \in PackValues :
           bits' = [bits EXCEPT !.writer = Bitstream_append(@, count, value),
                                !.writes = Append(@, <<count, value>>)]
    /\ UNCHANGED <<lz, rl, sr, pool>>

PackNext == PackAppend \/ BitsTransfer

SpecPack == BitsInit /\ [][PackNext]_vars

\* the bits the calls of the log are to write: for each call the low count
\* bits of its value, most significant first
PackedBits ==
    LET RECURSIVE bits_from(_)
        bits_from(i) ==
            IF i > Len(bits.writes) THEN <<>>
            ELSE LET count == bits.writes[i][1]
                     low == bits.writes[i][2] % Pow2(count)
                 IN [j \in 1..count |-> (low \div Pow2(count - j)) % 2] \o bits_from(i + 1)
    IN bits_from(1)

\* the bytes of a bit string, the last one padded with zeros on the right
PackedBytes ==
    LET b == PackedBits
        bit(k) == IF k <= Len(b) THEN b[k] ELSE 0
    IN [n \in 1..((Len(b) + 7) \div 8) |->
           bit(8 * n - 7) * 128 + bit(8 * n - 6) * 64 + bit(8 * n - 5) * 32
           + bit(8 * n - 4) * 16 + bit(8 * n - 3) * 8 + bit(8 * n - 2) * 4
           + bit(8 * n - 1) * 2 + bit(8 * n)]

\* C13 - BitStream packing: append(count, value) writes the low count bits of
\* value most significant bit first, and to_array returns the completed bytes
\* followed, when write_position > 0, by the partial byte left-aligned and
\* padded with zeros on the right; appending (3, 0b101), (5, 0b11010),
\* (8, 0xA5) to a fresh stream gives [0xBA, 0xA5].
C13_BitstreamPacking ==
    bits.pc = "reading" =>
        /\ bits.reader.buffer = PackedBytes
        /\ (bits.writes = <<<<3, 5>>, <<5, 26>>, <<8, 165>>>>
                => bits.reader.buffer = <<186, 165>>)

\* scenario S4 has been written and turned into [0xBA, 0xA5]
C13_WitnessS4 ==
    /\ bits.pc = "reading"
    /\ bits.writes = <<<<3, 5>>, <<5, 26>>, <<8, 165>>>>
    /\ bits.reader.buffer = <<186, 165>>

\* a stream that ends in a partial byte, one of its values wider than its count
C13_Witness ==
    /\ bits.pc = "reading"
    /\ bits.writer.write_position > 0
    /\ \E i \in 1..Len(bits.writes) : bits.writes[i][2] >= Pow2(bits.writes[i][1])
    /\ Len(bits.reader.buffer) >= 2
    /\ bits.reader.buffer = PackedBytes

(***************************************************************************)
(* The pool scenario: one caller of a ProcessController that calls start,  *)
(* join_finished, join_all and kill_all one after the other, while the     *)
(* worker processes end at any time.  A process is [id, state], state      *)
(* "started" while it is alive, "exited" once it has ended.  last is the   *)
(* call that returned last: the list before it, the list after it, the     *)
(* count returned, and what available() was after it.                      *)
(***************************************************************************)

\* largest max_threads of the pool scenario
MaxPool == 4

\* most start calls of one pool scenario
MaxStarts == 4

\* no join_all is in progress
NoWalk == [index |-> 0, count |-> 0, joined |-> <<>>]

PoolInit ==
    /\ \E max_threads \in 1..MaxPool, use_main_process \in BOOLEAN :
           pool = [pc |-> "ready",
                   controller |-> ProcessController(max_threads, TRUE, use_main_process),
                   use_main_process |-> use_main_process,
                   starts |-> 0,
                   spawned |-> 0,
                   inline |-> 0,
                   free_at_inline |-> 0,
                   before |-> <<>>,
                   walk |-> NoWalk,
                   last |-> [call |-> "none", before |-> <<>>, after |-> <<>>,
                             joined |-> <<>>, count |-> 0, available |-> 0]]
    /\ bits = IdleBits
    /\ lz = IdleLZ
    /\ rl = IdleRL
    /\ sr = IdleSR

\* the caller calls start(target, args)
PoolStart ==
    /\ pool.pc = "ready"
    /\ pool.starts < MaxStarts
    /\ pool' = [pool EXCEPT !.pc = "start", !.starts = @ + 1]
    /\ UNCHANGED <<bits, lz, rl, sr>>

\* inside start: one pass of the while loop, or the inline call, or the spawn
PoolStartStep ==
    /\ pool.pc = "start"
    /\ LET mode == start_mode(pool.controller) IN
       pool' = IF mode = "wait"
               THEN [pool EXCEPT !.controller.processes = start_reap(@)]
               ELSE IF mode = "inline"
               THEN [pool EXCEPT !.controller.main_running = TRUE,
                                 !.free_at_inline = available(pool.controller),
                                 !.inline = @ + 1,
                                 !.pc = "target"]
               ELSE [pool EXCEPT !.controller.processes =
                                     Append(@, [id |-> pool.starts, state |-> "started"]),
                                 !.spawned = @ + 1,
                                 !.pc = "ready"]
    /\ UNCHANGED <<bits, lz, rl, sr>>

\* target(*args) returns on the caller: main_running = False
PoolTargetReturns ==
    /\ pool.pc = "target"
    /\ pool' = [pool EXCEPT !.controller.main_running = FALSE, !.pc = "ready"]
    /\ UNCHANGED <<bits, lz, rl, sr>>

\* a worker process ends
PoolWorkerExit ==
    /\ pool.pc # "idle"
    /\ \E i \in DOMAIN pool.controller.processes :
           /\ pool.controller.processes[i].state = "started"
           /\ pool' = [pool EXCEPT !.controller.processes[i].state = "exited"]
    /\ UNCHANGED <<bits, lz, rl, sr>>

\* the caller calls join_finished()
PoolJoinFinished ==
    /\ pool.pc = "ready"
    /\ LET r == ProcessController_join_finished(pool.controller)
           after == [pool.controller EXCEPT !.processes = r.processes]
       IN pool' = [pool EXCEPT !.controller = after,
                               !.last = [call |-> "join_finished",
                                         before |-> pool.controller.processes,
                                         after |-> r.processes,
                                         joined |-> <<>>,
                                         count |-> r.count,
                                         available |-> available(after)]]
    /\ UNCHANGED <<bits, lz, rl, sr>>

\* the for loop of join_all in progress: the list it walks is the
\* controller's list, in which workers end while the call waits
PoolWalk ==
    [processes |-> pool.controller.processes,
     index |-> pool.walk.index,
     count |-> pool.walk.count,
     joined |-> pool.walk.joined]

\* the caller calls join_all()
PoolJoinAll ==
    /\ pool.pc = "ready"
    /\ LET st == join_all_begin(pool.controller)
       IN pool' = [pool EXCEPT !.pc = "join_all",
                               !.before = pool.controller.processes,
                               !.walk = [index |-> st.index, count |-> st.count,
                                         joined |-> st.joined]]
    /\ UNCHANGED <<bits, lz, rl, sr>>

\* inside join_all: process.join() returns for the visited process, which has
\* ended, and the process is removed; while that process is alive the call
\* waits, and any worker may end meanwhile
PoolJoinAllJoin ==
    /\ pool.pc = "join_all"
    /\ join_all_can_join(PoolWalk)
    /\ LET st == join_all_step(PoolWalk)
       IN pool' = [pool EXCEPT !.controller.processes = st.processes,
                               !.walk = [index |-> st.index, count |-> st.count,
                                         joined |-> st.joined]]
    /\ UNCHANGED <<bits, lz, rl, sr>>

\* join_all returns count: the for loop has walked past the end of the list
PoolJoinAllReturn ==
    /\ pool.pc = "join_all"
    /\ ~join_all_visiting(PoolWalk)
    /\ pool' = [pool EXCEPT !.pc = "ready",
                            !.before = <<>>,
                            !.walk = NoWalk,
                            !.last = [call |-> "join_all",
                                      before |-> pool.before,
                                      after |-> pool.controller.processes,
                                      joined |-> pool.walk.joined,
                                      count |-> pool.walk.count,
                                      available |-> available(pool.controller)]]
    /\ UNCHANGED <<bits, lz, rl, sr>>

\* the caller calls kill_all()
PoolKillAll ==
    /\ pool.pc = "ready"
    /\ LET r == ProcessController_kill_all(pool.controller)
           after == [pool.controller EXCEPT !.processes = r.processes]
       IN pool' = [pool EXCEPT !.controller = after,
                               !.last = [call |-> "kill_all",
                                         before |-> pool.controller.processes,
                                         after |-> r.processes,
                                         joined |-> r.joined,
                                         count |-> r.count,
                                         available |-> available(after)]]
    /\ UNCHANGED <<bits, lz, rl, sr>>

PoolNext ==
    \/ PoolStart \/ PoolStartStep \/ PoolTargetReturns \/ PoolWorkerExit
    \/ PoolJoinFinished \/ PoolJoinAll \/ PoolJoinAllJoin \/ PoolJoinAllReturn
    \/ PoolKillAll

SpecPool == PoolInit /\ [][PoolNext]_vars

\* the ids of the processes of a list
Ids(processes) == {processes[i].id : i \in DOMAIN processes}

\* the ids of the processes of a list that had ended
EndedIds(processes) ==
    {processes[i].id : i \in {j \in DOMAIN processes : processes[j].state = "exited"}}

\* C14: after join_finished() returns, no worker that had already finished
\* when the call began is still in the process list, and the count returned is
\* the number of workers removed.
C14_JoinFinishedReapsAll ==
    pool.last.call = "join_finished" =>
        /\ EndedIds(pool.last.before) \cap Ids(pool.last.after) = {}
        /\ pool.last.count = Len(pool.last.before) - Len(pool.last.after)

\* C15: after join_all() or kill_all() returns the process list is empty,
\* available() is max_threads, every worker that was in the pool has been
\* joined or killed, and the count returned is the number of workers that were
\* in the pool.
C15_JoinAllKillAllEmptyThePool ==
    pool.last.call \in {"join_all", "kill_all"} =>
        /\ pool.last.after = <<>>
        /\ pool.last.available = pool.controller.max_threads
        /\ Ids(pool.last.joined) = Ids(pool.last.before)
        /\ pool.last.count = Len(pool.last.before)

\* C16: start runs the job on the caller only when exactly one slot is free and
\* the controller was constructed with use_main_process set; a controller
\* constructed with use_main_process = False never runs a job inline.
C16_InlineOnlyWhenRequested ==
    /\ pool.pc = "target" => (pool.free_at_inline = 1 /\ pool.use_main_process)
    /\ ~pool.use_main_process => pool.inline = 0

\* C17: the listed workers plus the inline job never exceed max_threads
\* (available() >= 0 and available() + running() = max_threads), and with
\* max_threads = 1 every start is a direct call and no process is spawned.
C17_PoolCapacityBound ==
    /\ running(pool.controller) <= pool.controller.max_threads
    /\ available(pool.controller) >= 0
    /\ available(pool.controller) + running(pool.controller)
           = pool.controller.max_threads
    /\ pool.controller.max_threads = 1 =>
           /\ pool.spawned = 0
           /\ pool.controller.processes = <<>>
           /\ pool.inline = pool.starts - (IF pool.pc = "start" THEN 1 ELSE 0)

\* the pool is full: max_threads - 1 workers listed and a job on the caller
C17_Witness ==
    /\ pool.pc = "target"
    /\ pool.controller.max_threads = MaxPool
    /\ Len(pool.controller.processes) = MaxPool - 1
    /\ available(pool.controller) = 0

\* max_threads = 1: every start so far was a direct call
C17_WitnessSingle ==
    /\ pool.pc = "ready"
    /\ pool.controller.max_threads = 1
    /\ pool.starts = MaxStarts
    /\ pool.inline = MaxStarts

(***************************************************************************)
(* The search with failing jobs: the codec handed to CompressionRunner     *)
(* may raise for a pair.  In a worker process the exception ends the       *)
(* process before results.append; in the job that start runs on the        *)
(* coordinator it propagates out of find_best_compression.  The three-byte *)
(* buffer has a sanitised max_window_bits of 2, so no pair is legal.       *)
(***************************************************************************)

FaultBuffers == {<<1, 2, 3>>, <<1, 2, 3, 4, 5, 6, 7, 8>>}

FaultArguments == {<<4, 3>>, <<16, None>>}

FaultInit ==
    /\ \E buffer \in FaultBuffers, a \in FaultArguments, max_threads \in 1..MaxThreads :
           LET runner == CompressionRunner(buffer, a[1], a[2], max_threads) IN
           sr = [pc |-> "seed_window",
                 buffer |-> runner.buffer,
                 worse_allowed |-> runner.worse_allowed,
                 controller |-> runner.controller,
                 max_window_bits |-> runner.max_window_bits,
                 max_length_bits |-> runner.max_length_bits,
                 results |-> runner.results,
                 window_bits |-> None,
                 lowest_window_bits |-> None,
                 length_bits |-> None,
                 lowest_length_bits |-> None,
                 additional_combinations |-> <<>>,
                 index |-> 0,
                 job |-> <<>>,
                 resume |-> "",
                 pending |-> NoPending,
                 returned |-> <<>>,
                 error |-> "none",
                 started |-> <<>>,
                 left_running |-> FALSE]
    /\ bits = IdleBits
    /\ lz = IdleLZ
    /\ rl = IdleRL
    /\ pool = IdlePool

\* run_compression raises in a worker process: the process ends, nothing is
\* appended, the coordinator is not told
WorkerFail ==
    /\ sr.pc # "idle"
    /\ \E i \in DOMAIN sr.controller.processes :
           /\ sr.controller.processes[i].state = "started"
           /\ sr' = [sr EXCEPT !.controller.processes[i].state = "exited"]
    /\ UNCHANGED <<bits, lz, rl, pool>>

\* run_compression raises in the job that start runs on the coordinator:
\* target(*args) raises, main_running = False is not reached, the statements
\* that follow the compress() call do not run, and the exception leaves
\* find_best_compression
RunCompressionFails ==
    /\ sr.pc = "run_compression"
    /\ sr' = [sr EXCEPT !.pc = "raised", !.error = "RuntimeError",
                        !.pending = NoPending]
    /\ UNCHANGED <<bits, lz, rl, pool>>

FaultNext == SearchNext \/ WorkerFail \/ RunCompressionFails

SpecSearchFaults == FaultInit /\ [][FaultNext]_vars

\* C18: the search ends with an error only if no pair produced a result, and
\* then the error is NoViableCompression; when it returns, it returns the
\* smallest of the results that were produced.
C18_WorkerFailureTolerated ==
    /\ sr.pc = "raised" =>
           (sr.results = <<>> /\ sr.error = "NoViableCompression")
    /\ sr.pc = "returned" =>
           \A i \in DOMAIN sr.results : sr.returned.size <= sr.results[i].size

(***************************************************************************)
(* The malformed-input scenario: an encoding made by to_binary is cut      *)
(* short, or its 4-bit window field is overwritten, and handed to          *)
(* from_binary.  intact is the encoding as to_binary returned it.          *)
(***************************************************************************)

\* longest input of the malformed-input scenario
MalformedMaxLen == 6

MalformedInputs == {data \in LZSSInputs : Len(data) <= MalformedMaxLen}

\* the values of the 4-bit window field that decode to window_bits 17 and 18
IllegalWindowFields == {14, 15}

MalformedInit ==
    /\ \E data \in MalformedInputs, p \in LZSSParams :
           lz = [pc |-> "input", data |-> data,
                 codec |-> LZSSCodec(p[1], p[2], p[3]),
                 tokens |-> <<>>,
                 statistics |-> LZSSEncodingStatistics(LZSSCodec(p[1], p[2], p[3])),
                 size |-> 0, binary |-> <<>>,
                 decoded |-> [error |-> "none", bytes |-> <<>>],
                 intact |-> <<>>,
                 header |-> [max_window_bits |-> 0, length |-> 0,
                             minimum_backreference |-> 0, count |-> 0]]
    /\ bits = IdleBits
    /\ rl = IdleRL
    /\ sr = IdleSR
    /\ pool = IdlePool

\* the array loses its last bytes: data[:keep] with keep < len(data)
LZSSTruncate ==
    /\ lz.pc = "encoded"
    /\ \E keep \in 0..(Len(lz.binary) - 1) :
           lz' = [lz EXCEPT !.pc = "truncated",
                            !.intact = lz.binary,
                            !.binary = SubSeq(lz.binary, 1, keep)]
    /\ UNCHANGED <<bits, rl, sr, pool>>

\* the high four bits of the first byte, the window field, are overwritten
LZSSPatchWindowField ==
    /\ lz.pc = "encoded"
    /\ \E field \in IllegalWindowFields :
           lz' = [lz EXCEPT !.pc = "patched",
                            !.intact = lz.binary,
                            !.binary[1] = 16 * field + (@ % 16)]
    /\ UNCHANGED <<bits, rl, sr, pool>>

\* decoded = codec.from_binary(binary) on the truncated array
LZSSFromTruncated ==
    /\ lz.pc = "truncated"
    /\ lz' = [lz EXCEPT !.pc = "decoded_truncated",
                        !.decoded = LZSSCodec_from_binary(lz.codec, lz.binary)]
    /\ UNCHANGED <<bits, rl, sr, pool>>

\* decoded = codec.from_binary(binary) on the array with the patched header
LZSSFromPatched ==
    /\ lz.pc = "patched"
    /\ LET r == LZSSCodec_read_binary(lz.codec, lz.binary) IN
       lz' = [lz EXCEPT !.pc = "decoded_patched",
                        !.header = [max_window_bits |-> r.max_window_bits,
                                    length |-> r.length,
                                    minimum_backreference |-> r.minimum_backreference,
                                    count |-> r.count],
                        !.decoded = LZSSCodec_from_binary(lz.codec, lz.binary)]
    /\ UNCHANGED <<bits, rl, sr, pool>>

MalformedNext ==
    \/ LZSSCompress \/ LZSSToBinary
    \/ LZSSTruncate \/ LZSSPatchWindowField
    \/ LZSSFromTruncated \/ LZSSFromPatched

SpecMalformed == MalformedInit /\ [][MalformedNext]_vars

\* C19: from_binary on an array that ends in the header or before all tokens
\* have been read reports Truncated and returns no bytes.
C19_TruncatedRejected ==
    lz.pc = "decoded_truncated" =>
        (lz.decoded.error = "Truncated" /\ lz.decoded.bytes = <<>>)

\* C20: from_binary reports OutOfRange when the window field decodes to
\* window_bits 17 or 18, and decodes no token with that width.
C20_IllegalHeaderRejected ==
    (lz.pc = "decoded_patched" /\ lz.header.max_window_bits > 16) =>
        (lz.decoded.error = "OutOfRange" /\ lz.decoded.bytes = <<>>)

(***************************************************************************)
(* The construction scenario: a codec is constructed with the parameters   *)
(* requested, legal or not, and the LZSS codec is then used to compress    *)
(* and to encode.                                                          *)
(***************************************************************************)

\* longest input of the construction scenario
ConstructMaxLen == 5

ConstructInputs == {data \in LZSSInputs : Len(data) <= ConstructMaxLen}

\* (window_bits, length_bits, size_bit_count) requested from LZSSCodec
ConstructLZSSParams ==
    {<<3, 1, 22>>, <<2, 1, 22>>, <<17, 1, 22>>, <<3, 0, 22>>, <<3, 17, 22>>}

\* bit_width requested from RLECodec
ConstructRLEWidths == {0, 8, 129}

ConstructInit ==
    /\ \/ /\ \E data \in ConstructInputs, p \in ConstructLZSSParams :
                 lz = [pc |-> "construct", data |-> data, requested |-> p,
                       error |-> "none", codec |-> None,
                       tokens |-> <<>>, statistics |-> None,
                       size |-> 0, binary |-> <<>>,
                       decoded |-> [error |-> "none", bytes |-> <<>>]]
          /\ rl = IdleRL
       \/ /\ \E bit_width \in ConstructRLEWidths :
                 rl = [pc |-> "construct", requested |-> bit_width,
                       error |-> "none", codec |-> None]
          /\ lz = IdleLZ
    /\ bits = IdleBits
    /\ sr = IdleSR
    /\ pool = IdlePool

\* codec = LZSSCodec(window_bits, length_bits, size_bit_count)
LZSSConstruct ==
    /\ lz.pc = "construct"
    /\ LET codec == LZSSCodec(lz.requested[1], lz.requested[2], lz.requested[3])
       IN lz' = [lz EXCEPT !.pc = "input", !.codec = codec,
                           !.statistics = LZSSEncodingStatistics(codec)]
    /\ UNCHANGED <<bits, rl, sr, pool>>

\* codec = RLECodec(bit_width)
RLEConstruct ==
    /\ rl.pc = "construct"
    /\ rl' = [rl EXCEPT !.pc = "constructed",
                        !.codec = RLECodec(rl.requested, TRUE, 24)]
    /\ UNCHANGED <<bits, lz, sr, pool>>

ConstructNext ==
    \/ LZSSConstruct \/ LZSSCompress \/ LZSSToBinary
    \/ RLEConstruct

SpecConstruct == ConstructInit /\ [][ConstructNext]_vars

LegalLZSSParams(p) == p[1] >= 3 /\ p[1] <= 16 /\ p[2] >= 1 /\ p[2] <= 16

LegalRLEWidth(bit_width) == bit_width >= 1 /\ bit_width <= 128

\* C21: LZSSCodec fails with a Configuration error when window_bits is outside
\* 3..16 or length_bits outside 1..16, RLECodec when bit_width is outside
\* 1..128; no codec with such parameters is constructed and used.
C21_ConstructionValidates ==
    /\ (lz.pc \notin {"idle", "construct"} /\ ~LegalLZSSParams(lz.requested)) =>
           lz.error = "Configuration"
    /\ (rl.pc \notin {"idle", "construct"} /\ ~LegalRLEWidth(rl.requested)) =>
           rl.error = "Configuration"

\* C22: to_binary reports Overflow for a token list whose length does not fit
\* in size_bit_count bits, so the token count that from_binary reads back from
\* an encoding is always the number of tokens that were encoded.
C22_TokenCountOverflow ==
    lz.pc \in {"encoded", "decoded"} =>
        LZSSCodec_read_binary(lz.codec, lz.binary).count = Len(lz.tokens)

(***************************************************************************)
(* The descent-stop scenario: find_reversion on one series.  The series    *)
(* holds one result for each key from max_key downward, sizes chosen       *)
(* freely, with at most one key left out, in ascending or descending order *)
(* of appending.                                                           *)
(***************************************************************************)

\* longest series of the descent-stop scenario
RevMaxLen == 5

\* largest worse_allowed of the descent-stop scenario
MaxWorse == 2

RevSizes == {1, 2, 3}

\* max_key of the descent-stop scenario
RevMaxKey == 8

\* the results with keys max_key, max_key - 1, ... and the sizes given, the
\* one at position missing (if any) left out
RevSeries(sizes, missing, ascending) ==
    LET full == [i \in 1..Len(sizes) |->
                    [window_bits |-> RevMaxKey - i + 1, length_bits |-> 1,
                     size |-> sizes[i]]]
        kept == SelectSeq(full, LAMBDA r : r.window_bits # RevMaxKey - missing + 1)
    IN IF ascending THEN [i \in 1..Len(kept) |-> kept[Len(kept) - i + 1]] ELSE kept

ReversionInit ==
    /\ \E n \in 0..RevMaxLen, worse_allowed \in 0..MaxWorse, ascending \in BOOLEAN :
       \E sizes \in [1..n -> RevSizes], missing \in 0..n :
           sr = [pc |-> "series",
                 worse_allowed |-> worse_allowed,
                 sizes |-> sizes,
                 missing |-> missing,
                 series |-> RevSeries(sizes, missing, ascending),
                 reversion |-> [key |-> None, allowed_worse |-> 0]]
    /\ bits = IdleBits
    /\ lz = IdleLZ
    /\ rl = IdleRL
    /\ pool = IdlePool

\* lowest_key, allowed_worse = find_reversion(series, max_key, lambda r: r.window_bits)
FindReversion ==
    /\ sr.pc = "series"
    /\ sr' = [sr EXCEPT !.pc = "scanned",
                        !.reversion = find_reversion(sr.worse_allowed, sr.series,
                                                     RevMaxKey, "window_bits")]
    /\ UNCHANGED <<bits, lz, rl, pool>>

ReversionNext == FindReversion

SpecReversion == ReversionInit /\ [][ReversionNext]_vars

\* the smallest of sizes[1..i], inf for i = 0
MinUpTo(sizes, i) ==
    IF i < 1 THEN inf
    ELSE CHOOSE m \in {sizes[j] : j \in 1..i} : \A j \in 1..i : m <= sizes[j]

\* the result at position i is larger than the minimum seen before it
Worsened(sizes, i) == sizes[i] > MinUpTo(sizes, i - 1)

\* positions i such that the worse_allowed + 1 results ending at i all worsened
StopPositions(sizes, worse_allowed) ==
    {i \in (worse_allowed + 1)..Len(sizes) :
        \A j \in (i - worse_allowed)..i : Worsened(sizes, j)}

\* the series of the state has a result for every key from max_key downward
RevContiguous == sr.missing = 0 \/ sr.missing = Len(sr.sizes)

\* the sizes of the series of the state, by descending key
RevScanned ==
    IF sr.missing = 0 THEN sr.sizes ELSE SubSeq(sr.sizes, 1, Len(sr.sizes) - 1)

\* C23: on a contiguous series the stop signal (allowed_worse < 0) is raised
\* exactly when worse_allowed + 1 consecutive results are each larger than the
\* minimum seen so far, and the key returned is then the lowest key whose size
\* is that minimum; on a series with a missing key the result is
\* (None, worse_allowed).
C23_DescentStopRule ==
    sr.pc = "scanned" =>
        IF RevContiguous
        THEN LET stops == StopPositions(RevScanned, sr.worse_allowed) IN
             /\ (sr.reversion.allowed_worse < 0) <=> (stops # {})
             /\ stops # {} =>
                    LET first == CHOOSE i \in stops : \A j \in stops : i <= j
                        m == MinUpTo(RevScanned, first)
                        lowest == CHOOSE i \in 1..first :
                                      /\ RevScanned[i] = m
                                      /\ \A j \in 1..first : RevScanned[j] = m => j <= i
                    IN sr.reversion.key = RevMaxKey - lowest + 1
        ELSE sr.reversion = [key |-> None, allowed_worse |-> sr.worse_allowed]

\* the position in the input at which token i of tokens starts
RECURSIVE TokenStart(_, _)
TokenStart(tokens, i) ==
    IF i <= 1 THEN 0
    ELSE TokenStart(tokens, i - 1)
             + (IF Len(tokens[i - 1]) < 2 THEN 1 ELSE tokens[i - 1][2])

\* the indices of the back-references of tokens
BackReferences(tokens) == {i \in DOMAIN tokens : Len(tokens[i]) = 2}

\* C24: every back-reference (c - p, length) emitted by compress at position p
\* has 1 <= p - c <= 2^w, p - c <= p, and minimum_backreference <= length <=
\* minimum_backreference + 2^l - 1, so p - c - 1 fits in w bits and
\* length - minimum_backreference in l bits.
C24_LZSSTokenRanges ==
    lz.pc \in {"compressed", "expanded"} =>
        \A i \in BackReferences(lz.tokens) :
            LET distance == -lz.tokens[i][1]
                length == lz.tokens[i][2]
                w == lz.codec.max_window_bits
                l == lz.codec.max_length_bits
                m == lz.codec.minimum_backreference
            IN /\ 1 <= distance /\ distance <= Pow2(w)
               /\ distance <= TokenStart(lz.tokens, i)
               /\ m <= length /\ length <= m + Pow2(l) - 1
               /\ distance - 1 < Pow2(w)
               /\ length - m < Pow2(l)

\* one encoding holds a back-reference at the largest distance 2^w and one of
\* the largest length
C24_Witness ==
    /\ lz.pc = "compressed"
    /\ \E i \in BackReferences(lz.tokens) :
           -lz.tokens[i][1] = Pow2(lz.codec.max_window_bits)
    /\ \E i \in BackReferences(lz.tokens) :
           lz.tokens[i][2] = lz.codec.minimum_backreference
                                 + Pow2(lz.codec.max_length_bits) - 1

\* the number of bits appended by the writes of a log of <<count, value>>
RECURSIVE BitsAppended(_)
BitsAppended(writes) ==
    IF writes = <<>> THEN 0
    ELSE writes[1][1] + BitsAppended(Tail(writes))

\* C25: after every append on a fresh Bitstream write_position is in 0..7,
\* every element of buffer is in 0..255, and the number of bits appended is
\* 8 * len(buffer) + write_position.
C25_BitstreamWriteInvariant ==
    bits.pc = "writing" =>
        /\ bits.writer.write_position \in 0..7
        /\ \A i \in DOMAIN bits.writer.buffer : bits.writer.buffer[i] \in 0..255
        /\ BitsAppended(bits.writes)
               = 8 * Len(bits.writer.buffer) + bits.writer.write_position

\* appends that crossed a byte boundary twice and left a partial byte, with a
\* value wider than its count among them
C25_Witness ==
    /\ bits.pc = "writing"
    /\ Len(bits.writes) = MaxWrites
    /\ Len(bits.writer.buffer) >= 2
    /\ bits.writer.write_position = 7
    /\ \E i \in DOMAIN bits.writes : bits.writes[i][2] >= Pow2(bits.writes[i][1])

(***************************************************************************)
(* The interleaving scenario: append and read calls in any order on one    *)
(* Bitstream.  reference receives the same appends and no read.            *)
(***************************************************************************)

\* most calls on the stream of the interleaving scenario
MaxCalls == 4

MixCounts == {3, 8, 11}

MixValues == {5, 165}

MixInit ==
    /\ bits = [pc |-> "mixed", stream |-> Bitstream_new, reference |-> Bitstream_new,
               calls |-> <<>>, first_read_position |-> None]
    /\ lz = IdleLZ
    /\ rl = IdleRL
    /\ sr = IdleSR
    /\ pool = IdlePool

\* stream.append(count, value)
MixAppend ==
    /\ bits.pc = "mixed"
    /\ Len(bits.calls) < MaxCalls
    /\ \E count \in MixCounts, value \in MixValues :
           bits' = [bits EXCEPT !.stream = Bitstream_append(@, count, value),
                                !.reference = Bitstream_append(@, count, value),
                                !.calls = Append(@, <<"append", count, value>>)]
    /\ UNCHANGED <<lz, rl, sr, pool>>

\* stream.read(count)
MixRead ==
    /\ bits.pc = "mixed"
    /\ Len(bits.calls) < MaxCalls
    /\ \E count \in MixCounts :
           LET r == Bitstream_read(bits.stream, count) IN
           bits' = [bits EXCEPT !.stream = r.bs,
                                !.first_read_position =
                                    IF @ = None THEN bits.stream.read_position ELSE @,
                                !.calls = Append(@, <<"read", count, r.value>>)]
    /\ UNCHANGED <<lz, rl, sr, pool>>

MixNext == MixAppend \/ MixRead

SpecMix == MixInit /\ [][MixNext]_vars

\* C26: read leaves buffer, write_position and the partial-byte accumulator as
\* they were (to_array, which is computed from these three, then gives the
\* bytes the same appends give without reads); the first read starts at bit 0.
C26_ReadNonDestructive ==
    bits.pc = "mixed" =>
        /\ bits.stream.buffer = bits.reference.buffer
        /\ bits.stream.write_position = bits.reference.write_position
        /\ bits.stream.current_byte = bits.reference.current_byte
        /\ bits.first_read_position \in {None, 0}

(***************************************************************************)
(* The prefix scenario: common_prefix on one triple of arguments           *)
(***************************************************************************)

\* longest lhs of the prefix scenario
PrefixMaxLhs == 3

\* longest rhs of the prefix scenario
PrefixMaxRhs == 5

PrefixAlphabet == {0, 1}

\* "foo", "bar", "foobar" as character codes
Foo == <<102, 111, 111>>
Bar == <<98, 97, 114>>
FooBar == <<102, 111, 111, 98, 97, 114>>

\* the calls of the docstring of common_prefix
PrefixExamples == {<<Foo, FooBar, 3>>, <<Foo, Bar, 5>>, <<Foo, Foo, 3>>,
                   <<FooBar, Foo, 4>>, <<FooBar, Foo, 1>>}

PrefixArguments ==
    PrefixExamples \cup
    {<<lhs, rhs, max_length>> :
        lhs \in {s \in SeqsUpTo(PrefixAlphabet, PrefixMaxLhs) : Len(s) >= 1},
        rhs \in SeqsUpTo(PrefixAlphabet, PrefixMaxRhs),
        max_length \in 0..(PrefixMaxRhs + 1)}

PrefixInit ==
    /\ \E a \in PrefixArguments :
           lz = [pc |-> "prefix", lhs |-> a[1], rhs |-> a[2], max_length |-> a[3],
                 prefix |-> None]
    /\ bits = IdleBits
    /\ rl = IdleRL
    /\ sr = IdleSR
    /\ pool = IdlePool

\* prefix = common_prefix(lhs, rhs, max_length)
CommonPrefix ==
    /\ lz.pc = "prefix"
    /\ lz' = [lz EXCEPT !.pc = "prefix_returned",
                        !.prefix = common_prefix(lz.lhs, lz.rhs, lz.max_length)]
    /\ UNCHANGED <<bits, rl, sr, pool>>

PrefixNext == CommonPrefix

SpecPrefix == PrefixInit /\ [][PrefixNext]_vars

\* the k <= min(len(rhs), max_length) with lhs[i mod len(lhs)] = rhs[i] for all
\* i < k
MatchingLengths(lhs, rhs, max_length) ==
    {k \in 0..Min(Len(rhs), max_length) :
        \A i \in 0..(k - 1) : lhs[(i % Len(lhs)) + 1] = rhs[i + 1]}

\* C27: for non-empty lhs common_prefix returns the largest k <=
\* min(len(rhs), max_length) with lhs[i mod len(lhs)] = rhs[i] for all i < k;
\* ("foo", "foobar", 3) gives 3, ("foo", "bar", 5) gives 0, ("foobar", "foo", 4)
\* gives 3 and ("foobar", "foo", 1) gives 1.
C27_CommonPrefixCircular ==
    lz.pc = "prefix_returned" =>
        LET matching == MatchingLengths(lz.lhs, lz.rhs, lz.max_length) IN
        /\ lz.prefix \in matching
        /\ \A k \in matching : k <= lz.prefix
        /\ (lz.lhs = Foo /\ lz.rhs = FooBar /\ lz.max_length = 3) => lz.prefix = 3
        /\ (lz.lhs = Foo /\ lz.rhs = Bar /\ lz.max_length = 5) => lz.prefix = 0
        /\ (lz.lhs = FooBar /\ lz.rhs = Foo /\ lz.max_length = 4) => lz.prefix = 3
        /\ (lz.lhs = FooBar /\ lz.rhs = Foo /\ lz.max_length = 1) => lz.prefix = 1

\* a prefix longer than lhs: lhs was repeated
C27_Witness ==
    /\ lz.pc = "prefix_returned"
    /\ lz.lhs = <<0, 1>>
    /\ lz.rhs = <<0, 1, 0, 1, 0>>
    /\ lz.max_length = 6
    /\ lz.prefix = 5

\* C28: each (window_bits, length_bits) pair is submitted at most once, the
\* results list never holds two entries with the same pair, and pass_count is
\* the number of distinct evaluated pairs.
C28_NoPairEvaluatedTwice ==
    /\ \A i \in DOMAIN sr.started : StartedCount(sr.started[i]) = 1
    /\ \A i \in DOMAIN sr.results :
           PublishedCount(<<sr.results[i].window_bits, sr.results[i].length_bits>>) = 1
    /\ sr.pc = "returned" =>
           sr.returned.pass_count =
               Cardinality({<<sr.results[i].window_bits, sr.results[i].length_bits>> :
                               i \in DOMAIN sr.results})

(***************************************************************************)
(* The search under fair scheduling: the coordinator keeps running while   *)
(* it has a statement to execute, and every worker process that was        *)
(* started gets to append its result and to end.                           *)
(***************************************************************************)

\* the statements of find_best_compression, run by the coordinator
Coordinator ==
    \/ SeedWindow \/ SeedLength
    \/ WindowJoin \/ WindowSubmit \/ WindowCheck
    \/ LengthInit \/ LengthJoin \/ LengthSubmit \/ LengthCheck
    \/ RefineInit \/ RefineJoin \/ RefineSubmit \/ RefineCheck
    \/ Return \/ RunCompression

\* the coordinator has a statement to execute: find_best_compression has
\* neither returned nor raised
CoordinatorEnabled == sr.pc \notin {"idle", "returned", "raised"}

\* some worker process was started and has not appended its result
WorkerAppendEnabled ==
    /\ sr.pc # "idle"
    /\ \E i \in DOMAIN sr.controller.processes :
           sr.controller.processes[i].state = "started"

\* weak fairness of the coordinator, WF_vars(Coordinator), with the
\* enabling condition of its step written out as CoordinatorEnabled
CoordinatorFair ==
    \/ []<>(~CoordinatorEnabled)
    \/ []<><<Coordinator>>_vars

\* weak fairness of the workers' append, WF_vars(WorkerAppend), with the
\* enabling condition of the step written out as WorkerAppendEnabled
WorkerAppendFair ==
    \/ []<>(~WorkerAppendEnabled)
    \/ []<><<WorkerAppend>>_vars

SpecSearchFair ==
    /\ SearchInit
    /\ [][SearchNext]_vars
    /\ CoordinatorFair
    /\ WorkerAppendFair
    /\ WF_vars(WorkerExit)

\* find_best_compression has returned or has raised
SearchEnded == sr.pc \in {"returned", "raised"}

\* C29: when every spawned worker eventually appends its result and ends,
\* find_best_compression ends: the window loop, the length loop and the
\* refinement loop are each left, and start does not block forever.
C29_SearchTerminates == <>SearchEnded

\* a search with worker processes has returned after starting more jobs than
\* it has slots and after waiting in a loop for workers that had not ended
C29_Witness ==
    /\ sr.pc = "returned"
    /\ sr.controller.max_threads > 1
    /\ Len(sr.started) > sr.controller.max_threads
    /\ sr.left_running

(***************************************************************************)
(* The search on buffers short enough for max_window_bits to be sanitised  *)
(* to 3, where the refinement list holds pairs of the length descent, and  *)
(* on a buffer whose refinement list holds four pairs.                     *)
(***************************************************************************)

\* one long run; a run with a different last byte; a buffer whose repetition
\* only a window of 4 bits reaches and only 2 length bits cover, so that four
\* pairs are placed in the list
RefineBuffers == {<<0, 0, 0, 0, 0, 0>>,
                  <<0, 0, 0, 0, 0, 0, 1>>,
                  <<1, 2, 3, 4, 5, 6, 7, 8, 9, 1, 2, 3, 4, 5, 6>>}

\* (max_window_bits, max_length_bits) handed to CompressionRunner; max_threads
\* stays one below MaxThreads, the four-pair list making the searches longer
RefineArguments == {<<4, 2>>, <<16, None>>}

RefineSearchInit ==
    /\ \E buffer \in RefineBuffers, a \in RefineArguments,
          max_threads \in 1..(MaxThreads - 1) :
           LET runner == CompressionRunner(buffer, a[1], a[2], max_threads) IN
           sr = [pc |-> "seed_window",
                 buffer |-> runner.buffer,
                 worse_allowed |-> runner.worse_allowed,
                 controller |-> runner.controller,
                 max_window_bits |-> runner.max_window_bits,
                 max_length_bits |-> runner.max_length_bits,
                 results |-> runner.results,
                 window_bits |-> None,
                 lowest_window_bits |-> None,
                 length_bits |-> None,
                 lowest_length_bits |-> None,
                 additional_combinations |-> <<>>,
                 index |-> 0,
                 job |-> <<>>,
                 resume |-> "",
                 pending |-> NoPending,
                 returned |-> <<>>,
                 error |-> "none",
                 started |-> <<>>,
                 left_running |-> FALSE]
    /\ bits = IdleBits
    /\ lz = IdleLZ
    /\ rl = IdleRL
    /\ pool = IdlePool

SpecRefine == RefineSearchInit /\ [][SearchNext]_vars

\* the refinement loop has been left by its break
RefinementLeft == sr.pc \in {"return", "returned"}

\* the pairs that were placed in additional_combinations: the legal ones around
\* (lowest_window_bits, lowest_length_bits), which the refinement loop leaves
\* unchanged
PlacedCombinations ==
    {c \in {sr.lowest_window_bits - 1, sr.lowest_window_bits}
           \X {sr.lowest_length_bits - 1, sr.lowest_length_bits} :
        /\ c[1] > 2 /\ c[1] <= sr.max_window_bits
        /\ c[2] > 0 /\ c[2] <= sr.max_length_bits}

\* the placed pairs that have no entry in the results list
UnevaluatedCombinations == {c \in PlacedCombinations : PublishedCount(c) = 0}

\* C30: when the refinement loop is left, every pair that was placed in
\* additional_combinations has an entry in the results list, whether it was
\* there before or was submitted by the loop, and so does every pair that is
\* still in the list, for every max_threads and every order in which the
\* workers end.
C30_RefinementListProcessed ==
    RefinementLeft =>
        /\ UnevaluatedCombinations = {}
        /\ \A i \in DOMAIN sr.additional_combinations :
               /\ sr.additional_combinations[i] \in PlacedCombinations
               /\ PublishedCount(sr.additional_combinations[i]) > 0

\* the loop of a search with worker processes was left with a pair still in
\* additional_combinations, after it had submitted and removed another pair
C30_Witness ==
    /\ sr.pc = "returned"
    /\ sr.controller.max_threads > 1
    /\ Len(sr.additional_combinations) > 0
    /\ Cardinality(PlacedCombinations) > Len(sr.additional_combinations)
=============================================================================
